---- MODULE Spec2Model ----
(***************************************************************************)
(* The generic service runtime of the microservice-topology simulator     *)
(* (src/generic-service/src/main.rs): the connection cache of              *)
(* init_service_client, call_service, and the call-plan executor of        *)
(* get_data (stages in sequence, legs of a stage in parallel, every leg    *)
(* retried until it succeeds), followed by the latency sleep and the       *)
(* error sample.                                                           *)
(*                                                                         *)
(* Then the runner's validator (src/runner/src/validator): validate_config *)
(* and its rules, run on one SimulatorConfig.                              *)
(*                                                                         *)
(* Then the deployment materialiser and driver, of the orchestrator binary *)
(* (src/orchestrator/src/main.rs) and of the runner                        *)
(* (src/runner/src/main.rs, src/runner/src/orchestrator/mod.rs): the       *)
(* configuration check, the ports, the two artifacts, `up -d`, the load    *)
(* workers, the wait for the signal and `down`.                            *)
(*                                                                         *)
(* Every request is one invocation: an entry of inv.  A leg of a round is  *)
(* one call_service future of the invocation; the futures of a round run   *)
(* interleaved with each other and with every other invocation.            *)
(***************************************************************************)
EXTENDS Integers, Sequences, FiniteSets, TLC

VARIABLES
    config,     \* the fleet configuration every service loaded (immutable)
    inv,        \* the invocations of get_data, in order of creation
    services,   \* services[s]: the connection cache of service s
    nextChan,   \* the next channel a successful dial creates
    dialLog,    \* history: dialLog[s][t], the outcomes of s's dials to t
    dialled,    \* history: dialled[c], who dialled channel c, and what url
    errs,       \* history: simulated errors drawn so far
    dialFails,  \* history: failed dials so far
    requests,   \* history: requests sent by the external client
    simulator_config, \* the SimulatorConfig handed to validate_config
    rule,       \* the validation rule validate_config runs next
    result,     \* what validate_config returned: "Ok" or the error
    program,    \* the binary that runs: "runner" or "orchestrator"
    pc,         \* the call the driver makes next
    keys,       \* the order in which services.keys() yields the names
    port_assignments, \* what assign_ports returned to the driver
    files,      \* the files written under the working directory
    events,     \* history: container runtime commands, signals, workers
    exit,       \* what the driver returned: "Ok" or the error
    workers,    \* the load workers, in the order they were spawned
    content,    \* the JSON text handed to parse_json_str
    parsed,     \* what parse_json_str returned for it
    printed,    \* the JSON text serde_json wrote for the parsed value
    reparsed    \* what parse_json_str returned for the printed text

(* The state of the runner's validator, of the services at run time, of
   the deployment driver, and of the parser. *)
validator == <<simulator_config, rule, result>>
runtime == <<config, inv, services, nextChan, dialLog, dialled, errs, dialFails, requests>>
driver == <<program, pc, keys, port_assignments, files, events, exit, workers>>
parser == <<content, parsed, printed, reparsed>>

vars == <<config, inv, services, nextChan, dialLog, dialled, errs, dialFails, requests,
          simulator_config, rule, result,
          program, pc, keys, port_assignments, files, events, exit, workers,
          content, parsed, printed, reparsed>>

(* Bounds of the model: what the environment may do. *)
MaxErrors == 2
MaxDialFails == 1
MaxRequests == 1
MaxTicks == 2

Services == {"A", "B", "C", "D"}

(* struct Call *)
Call(s, m) == [service_name |-> s, method_name |-> m]

(* MethodConfig: calls is an Option<Vec<Vec<Call>>>; error_rate is a
   Bernoulli distribution, whose samples are all true when p = 1 *)
NoCalls == [some |-> FALSE, rows |-> <<>>, error_rate |-> "bernoulli(p)"]
Calls(rows) == [some |-> TRUE, rows |-> rows, error_rate |-> "bernoulli(p)"]
Certain(method) == [method EXCEPT !.error_rate = "bernoulli(1)"]

(* The topologies the model runs: a chain, a fan-out over two leaves (one
   with an empty plan, one with none), a two-stage plan over a nested
   callee, and two legs of one stage with the same target service. *)
Chain ==
    [A |-> [ma |-> Calls(<< <<Call("B", "mb")>> >>)],
     B |-> [mb |-> Calls(<< <<Call("C", "mc")>> >>)],
     C |-> [mc |-> NoCalls],
     D |-> [md |-> NoCalls]]

FanOut ==
    [A |-> [ma |-> Calls(<< <<Call("B", "mb"), Call("C", "mc")>> >>)],
     B |-> [mb |-> Calls(<<>>)],
     C |-> [mc |-> NoCalls],
     D |-> [md |-> NoCalls]]

Staged ==
    [A |-> [ma |-> Calls(<< <<Call("B", "mb"), Call("C", "mc")>>,
                            <<Call("C", "mc")>> >>)],
     B |-> [mb |-> Calls(<< <<Call("C", "mc")>> >>)],
     C |-> [mc |-> NoCalls],
     D |-> [md |-> NoCalls]]

Twin ==
    [A |-> [ma |-> Calls(<< <<Call("C", "mc"), Call("C", "mc")>>, <<>> >>)],
     B |-> [mb |-> NoCalls],
     C |-> [mc |-> NoCalls],
     D |-> [md |-> NoCalls]]

(* A callee whose every call ends with the simulated error. *)
Doomed ==
    [A |-> [ma |-> Calls(<< <<Call("C", "mc")>> >>)],
     B |-> [mb |-> NoCalls],
     C |-> [mc |-> Certain(NoCalls)],
     D |-> [md |-> NoCalls]]

Topologies == {Chain, FanOut, Staged, Twin, Doomed}

(* A topology in which two invocations of B.mb run at once, one called by
   A.ma and one by C.mc, each calling D.md. *)
Diamond ==
    [A |-> [ma |-> Calls(<< <<Call("B", "mb"), Call("C", "mc")>> >>)],
     B |-> [mb |-> Calls(<< <<Call("D", "md")>> >>)],
     C |-> [mc |-> Calls(<< <<Call("B", "mb")>> >>)],
     D |-> [md |-> NoCalls]]

(* The entry point the external client calls. *)
EntryService == "A"
EntryMethod == "ma"

(* The method name of a request is whatever its sender wrote: the entry
   point's method, or a name the receiving service has no method for. *)
StrayMethod == "mx"
RequestMethods == {EntryMethod, StrayMethod}

----------------------------------------------------------------------------
(* The connection cache: HashMap<String, ServiceClient<Channel>>. *)

EmptyMap == [t \in {} |-> 0]

contains_key(map, key) == key \in DOMAIN map

insert(map, key, value) == [t \in DOMAIN map \cup {key} |->
                               IF t = key THEN value ELSE map[t]]

----------------------------------------------------------------------------
(* One call_service future of a round. *)

NewFuture(i, call) ==
    [leg |-> i,                         \* history: the index it was pushed for
     service_name |-> call.service_name,
     method_name |-> call.method_name,
     st |-> "init",
     client |-> 0,
     child |-> 0,
     res |-> "none",                    \* "Ok" | "Err" once the future is done
     resp |-> [method_name |-> "", calls |-> <<>>],
     arr |-> 0]                         \* history: rank of arrival in the round

(* line 239: while succeeded.contains(&false); the variant leaves the row
   as soon as one leg has succeeded *)
StageDrained_Any(succeeded) == \E i \in DOMAIN succeeded : succeeded[i]
StageDrained(succeeded) == ~ \E i \in DOMAIN succeeded : ~succeeded[i]

(* lines 241-244: the legs a round calls, in index order; the variant
   lacks the `continue` and calls every leg *)
Pending_All(succeeded) == DOMAIN succeeded
Pending_Succeeded(succeeded) == {i \in DOMAIN succeeded : succeeded[i]}
Pending(succeeded) == {i \in DOMAIN succeeded : ~succeeded[i]}

RECURSIVE SetToSeq(_)
SetToSeq(S) ==
    IF S = {} THEN <<>>
    ELSE LET m == CHOOSE x \in S : \A y \in S : x <= y
         IN <<m>> \o SetToSeq(S \ {m})

(* lines 240-248: one future per pending leg, pushed in index order *)
MakeFutures(row, succeeded) ==
    LET idx == SetToSeq(Pending(succeeded))
    IN [j \in 1..Len(idx) |-> NewFuture(idx[j], row[idx[j]])]

(* lines 266-273: the caller's own record of one response; the variant
   never sets was_an_error *)
OwnRecord_NoFlag(f) ==
    [method_name |-> IF f.res = "Ok" THEN f.resp.method_name ELSE f.method_name,
     was_an_error |-> FALSE]
OwnRecord(f) ==
    [method_name |-> IF f.res = "Ok" THEN f.resp.method_name ELSE f.method_name,
     was_an_error |-> f.res # "Ok"]

(* lines 254-258: the callee's trace, on success; the variant drops it *)
Flattened_None(f) == <<>>
Flattened(f) == IF f.res = "Ok" THEN f.resp.calls ELSE <<>>

(* history: where each record of call_list comes from *)
Tag(v, f, own) ==
    [stage |-> v.stage, leg |-> f.leg, round |-> v.round, own |-> own,
     arr |-> f.arr, sub |-> IF own THEN Flattened(f) ELSE <<>>]

(* lines 254-273: what one response appends to the trace: the callee's
   records, then the caller's own.  The variants push the own record first,
   record successes only, or put the records at the front. *)
PushOutcome_RecordFirst(v, acc, f) ==
    [acc EXCEPT
       !.call_list = @ \o <<OwnRecord(f)>> \o Flattened(f),
       !.src = @ \o <<Tag(v, f, TRUE)>>
                 \o [q \in 1..Len(Flattened(f)) |-> Tag(v, f, FALSE)]]
PushOutcome_SkipErrors(v, acc, f) ==
    IF f.res # "Ok" THEN acc
    ELSE [acc EXCEPT
            !.call_list = @ \o Flattened(f) \o <<OwnRecord(f)>>,
            !.src = @ \o [q \in 1..Len(Flattened(f)) |-> Tag(v, f, FALSE)]
                      \o <<Tag(v, f, TRUE)>>]
PushOutcome_Prepend(v, acc, f) ==
    [acc EXCEPT
       !.call_list = Flattened(f) \o <<OwnRecord(f)>> \o @,
       !.src = [q \in 1..Len(Flattened(f)) |-> Tag(v, f, FALSE)]
                 \o <<Tag(v, f, TRUE)>> \o @]
PushOutcome(v, acc, f) ==
    [acc EXCEPT
       !.call_list = @ \o Flattened(f) \o <<OwnRecord(f)>>,
       !.src = @ \o [q \in 1..Len(Flattened(f)) |-> Tag(v, f, FALSE)]
                 \o <<Tag(v, f, TRUE)>>]

(* line 253: succeeded[i] = resp[j].is_ok(); the variant takes every
   response for a success *)
IsOk_Always(f) == TRUE
IsOk(f) == f.res = "Ok"

(* lines 250-276: the responses of a round, taken in index order; resp[j]
   is the response of the j-th future pushed (join_all keeps the order of
   the futures); the variant takes the responses from the last one *)
Resp_Reversed(v, j) == v.futures[Len(v.futures) - j + 1]
Resp(v, j) == v.futures[j]

RECURSIVE ProcessResponses(_, _, _, _)
ProcessResponses(v, i, j, acc) ==
    IF i > Len(v.succeeded) THEN acc
    ELSE IF v.succeeded[i] THEN ProcessResponses(v, i + 1, j, acc)
    ELSE LET f == Resp(v, j)
         IN ProcessResponses(v, i + 1, j + 1,
                [PushOutcome(v, acc, f) EXCEPT !.succeeded[i] = IsOk(f)])

(* A variant of the walk: the responses taken in the order they arrived. *)
RECURSIVE ByArrival(_, _, _)
ByArrival(v, rank, acc) ==
    IF rank > Len(v.futures) THEN acc
    ELSE LET f == v.futures[CHOOSE j \in DOMAIN v.futures : v.futures[j].arr = rank]
         IN ByArrival(v, rank + 1,
                [PushOutcome(v, acc, f) EXCEPT !.succeeded[f.leg] = IsOk(f)])

JoinResult_ArrivalOrder(v) ==
    ByArrival(v, 1,
        [succeeded |-> v.succeeded, call_list |-> v.call_list, src |-> v.src])
JoinResult(v) ==
    ProcessResponses(v, 1, 1,
        [succeeded |-> v.succeeded, call_list |-> v.call_list, src |-> v.src])

----------------------------------------------------------------------------
(* get_data: the control flow around the rounds. *)

(* lines 229-235: the plan of the method an invocation runs *)
Rows(v) == config[v.svc][v.method_name].rows

(* lines 240-249: build the futures of the next round and await them *)
StartRound(v) ==
    LET fs == MakeFutures(Rows(v)[v.stage], v.succeeded)
    IN [v EXCEPT !.round = @ + 1,
                 !.futures = fs,
                 !.arrc = 0,
                 !.attempts = @ + Len(fs),
                 !.pc = "join"]

(* lines 237-239: enter the k-th row, or leave the loop after the last one;
   a row with nothing left to call is left at once *)
RECURSIVE EnterStage(_, _)
EnterStage(v, k) ==
    IF k > Len(Rows(v))
    THEN [v EXCEPT !.stage = k, !.round = 0, !.succeeded = <<>>,
                   !.futures = <<>>, !.pc = "sleep"]
    ELSE LET w == [v EXCEPT !.stage = k, !.round = 0, !.futures = <<>>,
                            !.succeeded = [i \in 1..Len(Rows(v)[k]) |-> FALSE]]
         IN IF StageDrained(w.succeeded) THEN EnterStage(w, k + 1)
            ELSE StartRound(w)

(* lines 239, 277: after a round, another round or the next row; the variant
   has no loop around the round and goes on to the next row *)
AfterRound_NoLoop(w) == EnterStage(w, w.stage + 1)
AfterRound(w) ==
    IF StageDrained(w.succeeded) THEN EnterStage(w, w.stage + 1)
    ELSE StartRound(w)

(* Counters of the history, kept by <<stage, leg>>. *)
Cnt(f, d) == IF d \in DOMAIN f THEN f[d] ELSE 0
Bump(f, d) == [e \in DOMAIN f \cup {d} |-> Cnt(f, e) + IF e = d THEN 1 ELSE 0]

NewInvocation(s, m, parent, pfut) ==
    [svc |-> s, method_name |-> m, parent |-> parent, pfut |-> pfut,
     pc |-> "recv", stage |-> 0, succeeded |-> <<>>, futures |-> <<>>,
     call_list |-> <<>>,
     \* history, read by no action:
     round |-> 0,       \* the round of the stage that is running
     arrc |-> 0,        \* answers arrived in this round
     src |-> <<>>,      \* src[p]: where call_list[p] comes from
     issued |-> {},     \* <<stage, leg>> of every request sent
     okLegs |-> {},     \* <<stage, leg>> of every Ok answer received
     attempts |-> 0,    \* call_service futures created
     sample |-> "none", \* the error sample drawn, "true" or "false"
     sentN |-> <<>>,    \* sentN[<<stage, leg>>]: requests sent for the leg
     failedN |-> <<>>,  \* failedN[<<stage, leg>>]: answers that were errors
     deep |-> 0,        \* answered calls of the invocation and of all the
                        \* invocations below it
     deepOk |-> 0]      \* the same, not counting below a callee that failed

(* An invocation whose response its caller has taken: nothing of it is left. *)
Gone == [NewInvocation("", "", 0, 0) EXCEPT !.pc = "gone"]

Invs == 1..Len(inv)
Futs(n) == 1..Len(inv[n].futures)

Finished(v) == v.pc \in {"ok", "err", "panic", "gone"}

(* The services run without the validator: nothing was handed to it. *)
ValidatorIdle ==
    /\ simulator_config = <<>>
    /\ rule = "none"
    /\ result = "none"

(* No driver runs: the services and the validator are looked at alone. *)
DriverIdle ==
    /\ program = "none"
    /\ pc = "none"
    /\ keys = <<>>
    /\ port_assignments = [some |-> FALSE]
    /\ files = <<>>
    /\ events = <<>>
    /\ exit = "none"
    /\ workers = <<>>

(* Nothing is parsed. *)
ParserIdle ==
    /\ content = [some |-> FALSE]
    /\ parsed = [some |-> FALSE]
    /\ printed = [some |-> FALSE]
    /\ reparsed = [some |-> FALSE]

InitWith(topologies) ==
    /\ ValidatorIdle
    /\ DriverIdle
    /\ ParserIdle
    /\ config \in topologies
    /\ inv = <<>>
    /\ services = [s \in Services |-> EmptyMap]
    /\ nextChan = 1
    /\ dialled = <<>>
    /\ dialLog = [s \in Services |-> [t \in Services |-> <<>>]]
    /\ errs = 0
    /\ dialFails = 0
    /\ requests = 0

Init == InitWith(Topologies)

(* A load worker sends a request to its entry point; it awaits the answer
   before its next request, which here is sent once everything the previous
   one started has ended.  inv keeps the invocations since the last
   request. *)
ClientRequest ==
    /\ requests < MaxRequests
    /\ \A n \in Invs : Finished(inv[n])
    /\ requests' = requests + 1
    /\ \E m \in RequestMethods :
          inv' = <<NewInvocation(EntryService, m, 0, 0)>>
    /\ UNCHANGED <<config, services, nextChan, dialled, dialLog, errs, dialFails, validator, driver, parser>>

(* lines 227-249: the handler starts: method lookup, then the first round of
   the first row that has a leg, or the sleep when there is none *)
Receive(n) ==
    /\ inv[n].pc = "recv"
    /\ inv' = [inv EXCEPT ![n] =
                 IF inv[n].method_name \notin DOMAIN config[inv[n].svc]
                 THEN [@ EXCEPT !.pc = "panic"]
                 ELSE IF ~config[inv[n].svc][inv[n].method_name].some
                 THEN [@ EXCEPT !.pc = "sleep"]
                 ELSE EnterStage(@, 1)]
    /\ UNCHANGED <<config, services, nextChan, dialled, dialLog, errs, dialFails, requests, validator, driver, parser>>

(* lines 203-207: call_service sends the request with the client it got: an
   invocation starts at the callee *)
Sent(n, j, client) ==
    Append([inv EXCEPT ![n].futures[j].st = "wait",
                       ![n].futures[j].client = client,
                       ![n].futures[j].child = Len(inv) + 1,
                       ![n].issued = @ \cup {<<inv[n].stage, inv[n].futures[j].leg>>},
                       ![n].sentN = Bump(@, <<inv[n].stage, inv[n].futures[j].leg>>)],
           NewInvocation(inv[n].futures[j].service_name,
                         inv[n].futures[j].method_name, n, j))

(* lines 177-179: the url of a target, from the ip and the port the fleet
   configuration has under its name; every name has an address of its own *)
service_url(service_name) == <<"http://", service_name>>

(* lines 182-185: the key the dialled client is inserted under; the variant
   takes the caller's own name *)
InsertKey_Own(own, service_name) == own
InsertKey(own, service_name) == service_name

(* line 168: init_service_client looks the target up under the lock *)
CheckCache(n, j) ==
    /\ inv[n].pc = "join"
    /\ inv[n].futures[j].st = "init"
    /\ inv' = [inv EXCEPT ![n].futures[j].st =
                 IF contains_key(services[inv[n].svc], inv[n].futures[j].service_name)
                 THEN "hit" ELSE "dial"]
    /\ UNCHANGED <<config, services, nextChan, dialled, dialLog, errs, dialFails, requests, validator, driver, parser>>

(* lines 169-175, 203-207: the hit path takes the lock again, clones the
   entry (get(..).unwrap()) and the request goes out *)
GetCached(n, j) ==
    /\ inv[n].pc = "join"
    /\ inv[n].futures[j].st = "hit"
    /\ inv' = IF contains_key(services[inv[n].svc], inv[n].futures[j].service_name)
              THEN Sent(n, j, services[inv[n].svc][inv[n].futures[j].service_name])
              ELSE [inv EXCEPT ![n].pc = "panic", ![n].futures = <<>>]
    /\ UNCHANGED <<config, services, nextChan, dialled, dialLog, errs, dialFails, requests, validator, driver, parser>>

(* line 181: ServiceClient::connect succeeds: a new channel *)
DialOk(n, j) ==
    /\ inv[n].pc = "join"
    /\ inv[n].futures[j].st = "dial"
    /\ inv' = [inv EXCEPT ![n].futures[j].st = "insert",
                          ![n].futures[j].client = nextChan]
    /\ nextChan' = nextChan + 1
    /\ dialLog' = [dialLog EXCEPT ![inv[n].svc][inv[n].futures[j].service_name] =
                      Append(@, "ok")]
    /\ dialled' = Append(dialled, [by |-> inv[n].svc,
                                   url |-> service_url(inv[n].futures[j].service_name)])
    /\ UNCHANGED <<config, services, errs, dialFails, requests, validator, driver, parser>>

(* line 181: connect fails and `?` returns the error before the insert; the
   variant leaves an entry without a channel behind *)
CacheAfterFailedDial_Poison(map, key) == insert(map, key, 0)
CacheAfterFailedDial(map, key) == map

(* lines 181, 199-202: the dial fails; init_service_client returns Err and
   call_service's expect("Client connection failed") panics: the handler's
   task unwinds and the futures of its round are dropped *)
DialFail(n, j) ==
    /\ inv[n].pc = "join"
    /\ inv[n].futures[j].st = "dial"
    /\ dialFails < MaxDialFails
    /\ dialFails' = dialFails + 1
    /\ services' = [services EXCEPT ![inv[n].svc] =
                      CacheAfterFailedDial(@, inv[n].futures[j].service_name)]
    /\ dialLog' = [dialLog EXCEPT ![inv[n].svc][inv[n].futures[j].service_name] =
                      Append(@, "fail")]
    /\ inv' = [inv EXCEPT ![n].pc = "panic", ![n].futures = <<>>]
    /\ UNCHANGED <<config, nextChan, dialled, errs, requests, validator, driver, parser>>

(* lines 182-186, 203-207: the dialled client is inserted under the lock,
   init_service_client returns it and the request goes out *)
Insert(n, j) ==
    /\ inv[n].pc = "join"
    /\ inv[n].futures[j].st = "insert"
    /\ services' = [services EXCEPT ![inv[n].svc] =
                      insert(@, InsertKey(inv[n].svc, inv[n].futures[j].service_name),
                             inv[n].futures[j].client)]
    /\ inv' = Sent(n, j, inv[n].futures[j].client)
    /\ UNCHANGED <<config, nextChan, dialled, dialLog, errs, dialFails, requests, validator, driver, parser>>

(* A variant of call_service that answers Ok, with an empty response, also
   when the call failed. *)
Answered_ErrIsOk(f, c, rank) ==
    [f EXCEPT !.st = "done",
              !.res = "Ok",
              !.resp = IF c.pc = "ok"
                       THEN [method_name |-> c.method_name, calls |-> c.call_list]
                       ELSE [method_name |-> f.method_name, calls |-> <<>>],
              !.arr = rank]

(* lines 208-217: what call_service returns for the callee's answer:
   Ok(response), or Err with the method name asked for (a simulated error,
   or the callee's handler died) *)
Answered(f, c, rank) ==
    [f EXCEPT !.st = "done",
              !.res = IF c.pc = "ok" THEN "Ok" ELSE "Err",
              !.resp = IF c.pc = "ok"
                       THEN [method_name |-> c.method_name, calls |-> c.call_list]
                       ELSE @,
              !.arr = rank]

(* lines 249-277, 237-249: join_all has returned; the responses are recorded
   and the loops go on to the next round, the next row, or the sleep *)
Joined(v) ==
    CHOOSE x \in
        {AfterRound(w) :
            w \in {[v EXCEPT !.succeeded = r.succeeded,
                             !.call_list = r.call_list,
                             !.src = r.src] : r \in {JoinResult(v)}}} : TRUE

(* lines 207-217, 249: the callee's answer arrives at a future; with the last
   answer of the round join_all returns *)
Response(n, j) ==
    /\ inv[n].pc = "join"
    /\ inv[n].futures[j].st = "wait"
    /\ inv[inv[n].futures[j].child].pc \in {"ok", "err", "panic"}
    /\ \E c \in {inv[n].futures[j].child} :
       \E v \in {[inv[n] EXCEPT
                    !.futures[j] = Answered(@, inv[c], inv[n].arrc + 1),
                    !.arrc = @ + 1,
                    !.okLegs = IF inv[c].pc = "ok"
                               THEN @ \cup {<<inv[n].stage, inv[n].futures[j].leg>>}
                               ELSE @,
                    !.failedN = IF inv[c].pc = "ok" THEN @
                                ELSE Bump(@, <<inv[n].stage, inv[n].futures[j].leg>>),
                    !.deep = @ + 1 + inv[c].deep,
                    !.deepOk = @ + 1 + IF inv[c].pc = "ok" THEN inv[c].deepOk ELSE 0]} :
       \E w \in {IF \A i \in Futs(n) : v.futures[i].st = "done"
                  THEN Joined(v) ELSE v} :
           inv' = [inv EXCEPT ![n] = w, ![c] = Gone]
    /\ UNCHANGED <<config, services, nextChan, dialled, dialLog, errs, dialFails, requests, validator, driver, parser>>

(* lines 286-287: the latency is sampled and the sleep ends *)
SleepDone(n) ==
    /\ inv[n].pc = "sleep"
    /\ inv' = [inv EXCEPT ![n].pc = "sample"]
    /\ UNCHANGED <<config, services, nextChan, dialled, dialLog, errs, dialFails, requests, validator, driver, parser>>

(* lines 288-298: what get_data returns for its error sample:
   Err(Status::internal("Internal Error")) or Ok(response); the variant
   also fails when a call of its own has failed *)
Outcome_Downstream(v, error_rate) ==
    IF error_rate \/ \E p \in DOMAIN v.call_list : v.call_list[p].was_an_error
    THEN "err" ELSE "ok"
Outcome(v, error_rate) == IF error_rate THEN "err" ELSE "ok"

(* lines 288-292: the error sample is true: Status::internal("Internal
   Error") *)
SimulateError(n) ==
    /\ inv[n].pc = "sample"
    /\ errs < MaxErrors
    /\ errs' = errs + 1
    /\ inv' = [inv EXCEPT ![n].pc = Outcome(inv[n], TRUE), ![n].sample = "true"]
    /\ UNCHANGED <<config, services, nextChan, dialled, dialLog, dialFails, requests, validator, driver, parser>>

(* lines 288, 294-298: the error sample is false: Ok {calls, method_name} *)
Respond(n) ==
    /\ inv[n].pc = "sample"
    /\ config[inv[n].svc][inv[n].method_name].error_rate # "bernoulli(1)"
    /\ inv' = [inv EXCEPT ![n].pc = Outcome(inv[n], FALSE), ![n].sample = "false"]
    /\ UNCHANGED <<config, services, nextChan, dialled, dialLog, errs, dialFails, requests, validator, driver, parser>>

Next ==
    \/ ClientRequest
    \/ \E n \in Invs : Receive(n)
    \/ \E n \in Invs : \E j \in Futs(n) : CheckCache(n, j)
    \/ \E n \in Invs : \E j \in Futs(n) : GetCached(n, j)
    \/ \E n \in Invs : \E j \in Futs(n) : DialOk(n, j)
    \/ \E n \in Invs : \E j \in Futs(n) : DialFail(n, j)
    \/ \E n \in Invs : \E j \in Futs(n) : Insert(n, j)
    \/ \E n \in Invs : \E j \in Futs(n) : Response(n, j)
    \/ \E n \in Invs : SleepDone(n)
    \/ \E n \in Invs : SimulateError(n)
    \/ \E n \in Invs : Respond(n)

Spec == Init /\ [][Next]_vars

(* The runtime runs every task that can run, a load worker sends its
   requests, an error sample that can come out false does so in the end, and
   so does a dial that can succeed. *)
Fairness ==
    /\ WF_vars(ClientRequest)
    /\ WF_vars(\E n \in Invs : Receive(n))
    /\ WF_vars(\E n \in Invs : \E j \in Futs(n) : CheckCache(n, j))
    /\ WF_vars(\E n \in Invs : \E j \in Futs(n) : GetCached(n, j))
    /\ SF_vars(\E n \in Invs : \E j \in Futs(n) : DialOk(n, j))
    /\ WF_vars(\E n \in Invs : \E j \in Futs(n) : Insert(n, j))
    /\ WF_vars(\E n \in Invs : \E j \in Futs(n) : Response(n, j))
    /\ WF_vars(\E n \in Invs : SleepDone(n))
    /\ SF_vars(\E n \in Invs : Respond(n))

SpecFair == Init /\ [][Next]_vars /\ Fairness

(* The same services under the topology Diamond. *)
InitDiamond == InitWith({Diamond})

SpecDiamond == InitDiamond /\ [][Next]_vars

----------------------------------------------------------------------------
(* The runner's validator: src/runner/src/validator/mod.rs and rules.rs,
   on the SimulatorConfig of src/runner/src/parser/mod.rs.

   A string is the sequence of its characters, so that a call target can be
   split at its dots. *)

Target(service, method) == service \o <<".">> \o method

(* str::split('.'): the parts between the dots, empty parts included *)
RECURSIVE split(_)
split(str) ==
    IF \A i \in DOMAIN str : str[i] # "."
    THEN <<str>>
    ELSE LET i == CHOOSE k \in DOMAIN str :
                      str[k] = "." /\ \A l \in 1..(k - 1) : str[l] # "."
         IN <<SubSeq(str, 1, i - 1)>> \o split(SubSeq(str, i + 1, Len(str)))

(* struct Distribution; parameters is a map from names to numbers *)
Distribution(type, parameters) ==
    [distribution_type |-> type, parameters |-> parameters]

(* Option<Distribution>, Option<LoadConfig> *)
None == [some |-> FALSE]
Some(x) == [some |-> TRUE, value |-> x]

(* struct MethodConfig, ServiceConfig, EntryPoint, LoadConfig *)
MethodConfig(calls, latency_distribution, error_rate) ==
    [calls |-> calls, latency_distribution |-> latency_distribution,
     error_rate |-> error_rate]
EntryPoint(service, method, requests_per_second) ==
    [service |-> service, method |-> method,
     requests_per_second |-> requests_per_second]
LoadConfig(entry_points) == [entry_points |-> entry_points]

(* A map with one key; maps with more keys are joined with @@. *)
Entry(key, value) == [k \in {key} |-> value]

(* The rules return "Ok" or the message of the bail!.  A rule that iterates
   over a HashMap meets the entries in any order: the operators below give
   the set of the results the rule can return. *)

(* rules.rs 7-12 *)
validate_has_services(cfg) ==
    IF DOMAIN cfg.services = {}
    THEN "Configuration must define at least one service"
    ELSE "Ok"

(* Vec<Vec<String>> in the order of the nested for loops *)
RECURSIVE Flat(_)
Flat(rows) == IF rows = <<>> THEN <<>> ELSE Head(rows) \o Flat(Tail(rows))

(* rules.rs 23-42: the checks of one call target; the variant asks for two
   parts at least *)
CheckCall_TwoOrMore(cfg, call) ==
    LET parts == split(call)
    IN IF Len(parts) < 2 THEN "Invalid call format"
       ELSE IF parts[1] \notin DOMAIN cfg.services
       THEN "Service does not exist"
       ELSE IF parts[2] \notin DOMAIN cfg.services[parts[1]].methods
       THEN "Method does not exist"
       ELSE "Ok"
CheckCall(cfg, call) ==
    LET parts == split(call)
    IN IF Len(parts) # 2 THEN "Invalid call format"
       ELSE IF parts[1] \notin DOMAIN cfg.services
       THEN "Service does not exist"
       ELSE IF parts[2] \notin DOMAIN cfg.services[parts[1]].methods
       THEN "Method does not exist"
       ELSE "Ok"

(* rules.rs 21-44: the calls of one method, until the first bail! *)
RECURSIVE CheckCalls(_, _)
CheckCalls(cfg, calls) ==
    IF calls = <<>> THEN "Ok"
    ELSE IF CheckCall(cfg, Head(calls)) # "Ok" THEN CheckCall(cfg, Head(calls))
    ELSE CheckCalls(cfg, Tail(calls))

(* The methods of the configuration, as <<service name, method name>>. *)
MethodsOf(cfg) ==
    UNION {{<<s, m>> : m \in DOMAIN cfg.services[s].methods} :
           s \in DOMAIN cfg.services}

(* The first error over the methods taken in any order: the error of any
   method that has one, "Ok" when none has. *)
FirstOf(errors) == IF errors \ {"Ok"} = {} THEN {"Ok"} ELSE errors \ {"Ok"}

(* rules.rs 188: stack.insert(service_name); the variant forgets it *)
Push_Forgotten(stack, service_name) == stack
Push(stack, service_name) == stack \cup {service_name}

(* rules.rs 215: stack.remove(service_name); the variant forgets it *)
Remove_Forgotten(stack, service_name) == stack
Remove(stack, service_name) == stack \ {service_name}

(* rules.rs 181-217: the depth-first search from one service; a result is
   Err (the bail! of line 200, passed on by every `?`) or Ok(false), with
   the two sets as the search left them *)
RECURSIVE detect_cycles_dfs(_, _, _, _)
RECURSIVE VisitMethods(_, _, _, _, _)
RECURSIVE VisitCalls(_, _, _, _, _)
detect_cycles_dfs(cfg, service_name, visited, stack) ==
    VisitMethods(cfg, service_name, DOMAIN cfg.services[service_name].methods,
                 visited \cup {service_name}, Push(stack, service_name))

(* rules.rs 192, 214-216: for method in service.methods.values(), in any
   order; then stack.remove and Ok(false) *)
VisitMethods(cfg, service_name, methods, visited, stack) ==
    IF methods = {}
    THEN {[ret |-> "Ok(false)", visited |-> visited,
           stack |-> Remove(stack, service_name)]}
    ELSE UNION {UNION {IF r.ret = "Err" THEN {r}
                       ELSE VisitMethods(cfg, service_name, methods \ {m},
                                         r.visited, r.stack) :
                       r \in VisitCalls(cfg, service_name,
                                        Flat(cfg.services[service_name].methods[m].calls),
                                        visited, stack)} :
                m \in methods}

(* rules.rs 193-211: the calls of one method in their order *)
VisitCalls(cfg, service_name, calls, visited, stack) ==
    IF calls = <<>>
    THEN {[ret |-> "Ok(false)", visited |-> visited, stack |-> stack]}
    ELSE LET called_service == split(Head(calls))[1]
         IN IF called_service \in stack
            THEN {[ret |-> "Err", visited |-> visited, stack |-> stack]}
            ELSE IF called_service \notin visited
            THEN UNION {IF r.ret = "Err" THEN {r}
                        ELSE VisitCalls(cfg, service_name, Tail(calls),
                                        r.visited, r.stack) :
                        r \in detect_cycles_dfs(cfg, called_service, visited, stack)}
            ELSE VisitCalls(cfg, service_name, Tail(calls), visited, stack)

(* rules.rs 163-178: the search from every service not yet visited, the
   services in any order *)
RECURSIVE VisitServices(_, _, _, _)
VisitServices(cfg, names, visited, stack) ==
    IF names = {} THEN {"Ok"}
    ELSE UNION {IF s \in visited
                THEN VisitServices(cfg, names \ {s}, visited, stack)
                ELSE UNION {IF r.ret = "Err"
                            THEN {"Circular dependency detected"}
                            ELSE VisitServices(cfg, names \ {s}, r.visited, r.stack) :
                            r \in detect_cycles_dfs(cfg, s, visited, stack)} :
                s \in names}

detect_circular_dependencies(cfg) ==
    VisitServices(cfg, DOMAIN cfg.services, {}, {})

(* rules.rs 15-52: every call target, then the cycles *)
validate_service_dependencies(cfg) ==
    LET refs == FirstOf({CheckCalls(cfg, Flat(cfg.services[sm[1]].methods[sm[2]].calls)) :
                           sm \in MethodsOf(cfg)})
    IN IF refs # {"Ok"} THEN refs ELSE detect_circular_dependencies(cfg)

(* rules.rs 69-160 *)
validate_single_distribution(distribution) ==
    LET p == distribution.parameters
        has(key) == key \in DOMAIN p
        type == distribution.distribution_type
    IN IF type = "normal"
       THEN IF ~has("mean") THEN "Normal distribution missing 'mean' parameter"
            ELSE IF ~has("stddev") THEN "Normal distribution missing 'stddev' parameter"
            ELSE IF p["mean"] < 0 THEN "Normal distribution has negative mean"
            ELSE IF p["stddev"] <= 0 THEN "Normal distribution has non-positive stddev"
            ELSE "Ok"
       ELSE IF type = "uniform"
       THEN IF ~has("min") THEN "Uniform distribution missing 'min' parameter"
            ELSE IF ~has("max") THEN "Uniform distribution missing 'max' parameter"
            ELSE IF p["min"] > p["max"] THEN "Uniform distribution has min > max"
            ELSE IF p["min"] < 0 THEN "Uniform distribution has negative min"
            ELSE "Ok"
       ELSE IF type = "constant"
       THEN IF ~has("value") THEN "Constant distribution missing 'value' parameter"
            ELSE IF p["value"] < 0 THEN "Constant distribution has negative value"
            ELSE "Ok"
       ELSE IF type = "exponential"
       THEN IF ~has("rate") THEN "Exponential distribution missing 'rate' parameter"
            ELSE IF p["rate"] <= 0 THEN "Exponential distribution has non-positive rate"
            ELSE "Ok"
       ELSE IF type = "bernoulli"
       THEN IF ~has("p") THEN "Exponential distribution missing 'p' parameter"
            ELSE "Ok"
       ELSE "Unknown distribution type"

(* rules.rs 55-66 *)
validate_latency_distributions(cfg) ==
    FirstOf({validate_single_distribution(
                 cfg.services[sm[1]].methods[sm[2]].latency_distribution) :
             sm \in MethodsOf(cfg)})

validate_error_rates_Skipped(cfg) == {"Ok"}
(* rules.rs 220-230: only where an error_rate is given *)
validate_error_rates(cfg) ==
    FirstOf({IF cfg.services[sm[1]].methods[sm[2]].error_rate.some
             THEN validate_single_distribution(
                      cfg.services[sm[1]].methods[sm[2]].error_rate.value)
             ELSE "Ok" :
             sm \in MethodsOf(cfg)})

(* rules.rs 248-271 *)
validate_entry_point(entry_point, cfg) ==
    IF entry_point.service \notin DOMAIN cfg.services
    THEN "Entry point service does not exist"
    ELSE IF entry_point.method \notin DOMAIN cfg.services[entry_point.service].methods
    THEN "Entry point method does not exist"
    ELSE IF entry_point.requests_per_second = 0
    THEN "Entry point requests_per_second must be positive"
    ELSE "Ok"

RECURSIVE ValidateEntryPoints(_, _)
ValidateEntryPoints(entry_points, cfg) ==
    IF entry_points = <<>> THEN "Ok"
    ELSE IF validate_entry_point(Head(entry_points), cfg) # "Ok"
    THEN validate_entry_point(Head(entry_points), cfg)
    ELSE ValidateEntryPoints(Tail(entry_points), cfg)

(* rules.rs 233-245 *)
validate_load_config(load, cfg) ==
    IF load.entry_points = <<>>
    THEN "Load configuration must have at least one entry point"
    ELSE ValidateEntryPoints(load.entry_points, cfg)

(* The configurations handed to the validator: three services, of which the
   first has two methods; the calls of the methods, a latency distribution,
   an error rate and the load section vary over well-formed and ill-formed
   values.  And the configuration without services. *)
SvcA == <<"A">>
SvcB == <<"B">>
SvcC == <<"C">>
SvcD == <<"D">>
MethM == <<"m">>
MethN == <<"n">>
MethZ == <<"z">>

CallsOfA ==
    {<<>>,
     << <<Target(SvcB, MethM)>> >>,
     << <<Target(SvcB, MethM), Target(SvcC, MethM)>> >>,
     << <<Target(SvcA, MethN)>> >>,
     << <<SvcB>> >>,
     << <<Target(Target(SvcB, MethM), MethZ)>> >>,
     << <<Target(SvcD, MethM)>> >>,
     << <<Target(SvcB, MethZ)>> >>,
     << <<Target(SvcB, MethM)>>, <<Target(SvcB, <<>>)>> >>}
CallsOfB ==
    {<<>>,
     << <<Target(SvcC, MethM)>> >>,
     << <<Target(SvcA, MethM)>> >>,
     << <<Target(SvcC, MethM), Target(SvcA, MethN)>> >>}
CallsOfC ==
    {<<>>,
     << <<Target(SvcA, MethM)>> >>,
     << <<Target(SvcB, MethM)>> >>,
     << <<Target(SvcD, MethM)>> >>}

GoodLatency == Distribution("normal", [mean |-> 10, stddev |-> 2])
Latencies ==
    {GoodLatency,
     Distribution("normal", [mean |-> 10, stddev |-> 0]),
     Distribution("pareto", [scale |-> 1])}
ErrorRates ==
    {None,
     Some(Distribution("bernoulli", [p |-> 1])),
     Some(Distribution("bernoulli", <<>>))}
Loads ==
    {None,
     Some(LoadConfig(<<EntryPoint(SvcA, MethM, 5)>>)),
     Some(LoadConfig(<<EntryPoint(SvcA, MethZ, 5)>>)),
     Some(LoadConfig(<<>>))}

Topology(a, b, c, latency, error_rate, load) ==
    [services |->
        Entry(SvcA, [methods |->
                        Entry(MethM, MethodConfig(a, latency, error_rate))
                        @@ Entry(MethN, MethodConfig(<<>>, GoodLatency, None))])
        @@ Entry(SvcB, [methods |-> Entry(MethM, MethodConfig(b, GoodLatency, None))])
        @@ Entry(SvcC, [methods |-> Entry(MethM, MethodConfig(c, GoodLatency, None))]),
     load |-> load]

NoServices == [services |-> <<>>, load |-> None]

(* The distributions of every kind the validator knows, each with its
   parameters in range, at the edge of the range, out of range and missing,
   and one of a kind it does not know.  The parameters are f64 read from
   JSON, which has no NaN and no infinity: the rules only compare them with
   0 and with each other, and whole numbers take every branch. *)
Distributions ==
    {Distribution("normal", [mean |-> 0, stddev |-> 1]),
     Distribution("normal", [mean |-> 0 - 1, stddev |-> 1]),
     Distribution("normal", [mean |-> 10, stddev |-> 0 - 2]),
     Distribution("normal", [mean |-> 10]),
     Distribution("normal", [stddev |-> 2]),
     Distribution("uniform", [min |-> 0, max |-> 0]),
     Distribution("uniform", [min |-> 1, max |-> 3]),
     Distribution("uniform", [min |-> 3, max |-> 1]),
     Distribution("uniform", [min |-> 0 - 2, max |-> 1]),
     Distribution("uniform", [min |-> 1]),
     Distribution("uniform", [max |-> 1]),
     Distribution("constant", [value |-> 0]),
     Distribution("constant", [value |-> 0 - 1]),
     Distribution("constant", <<>>),
     Distribution("exponential", [rate |-> 1]),
     Distribution("exponential", [rate |-> 0]),
     Distribution("exponential", <<>>),
     Distribution("bernoulli", [p |-> 0]),
     Distribution("bernoulli", [p |-> 2]),
     Distribution("bernoulli", [p |-> 0 - 1]),
     Distribution("weibull", [shape |-> 1])}

(* One call from A.m to B.m, and the distributions of A.m varied *)
DistributionConfigs ==
    {Topology(<< <<Target(SvcB, MethM)>> >>, <<>>, <<>>, latency, error_rate, None) :
        latency \in Distributions \cup Latencies,
        error_rate \in {Some(d) : d \in Distributions} \cup ErrorRates}

(* Four services: A calls B and C, from one method or from two, B and C
   call D, and D calls nothing, or calls back to A, or calls B *)
DiamondConfig(a_m, a_n, d) ==
    [services |->
        Entry(SvcA, [methods |->
                        Entry(MethM, MethodConfig(a_m, GoodLatency, None))
                        @@ Entry(MethN, MethodConfig(a_n, GoodLatency, None))])
        @@ Entry(SvcB, [methods |->
                           Entry(MethM, MethodConfig(<< <<Target(SvcD, MethM)>> >>,
                                                     GoodLatency, None))])
        @@ Entry(SvcC, [methods |->
                           Entry(MethM, MethodConfig(<< <<Target(SvcD, MethM)>> >>,
                                                     GoodLatency, None))])
        @@ Entry(SvcD, [methods |-> Entry(MethM, MethodConfig(d, GoodLatency, None))]),
     load |-> None]

DiamondConfigs ==
    {DiamondConfig(a[1], a[2], d) :
        a \in {<< << <<Target(SvcB, MethM), Target(SvcC, MethM)>> >>, <<>> >>,
               << << <<Target(SvcB, MethM)>>, <<Target(SvcC, MethM)>> >>, <<>> >>,
               << << <<Target(SvcB, MethM)>> >>, << <<Target(SvcC, MethM)>> >> >>},
        d \in {<<>>, << <<Target(SvcA, MethM)>> >>, << <<Target(SvcB, MethM)>> >>}}

SimulatorConfigs ==
    {Topology(a, b, c, latency, error_rate, load) :
        a \in CallsOfA, b \in CallsOfB, c \in CallsOfC,
        latency \in Latencies, error_rate \in ErrorRates, load \in Loads}
    \cup {NoServices} \cup DistributionConfigs \cup DiamondConfigs

(* mod.rs 9-17: the rules in the order validate_config calls them *)
Rules ==
    <<"has_services", "service_dependencies", "latency_distributions",
      "error_rates", "load">>

RuleAfter_LoadSecond(r) ==
    IF r = "has_services" THEN "load"
    ELSE IF r = "load" THEN "service_dependencies"
    ELSE IF r = "service_dependencies" THEN "latency_distributions"
    ELSE IF r = "latency_distributions" THEN "error_rates"
    ELSE "done"
RuleAfter(r) ==
    LET i == CHOOSE k \in DOMAIN Rules : Rules[k] = r
    IN IF i < Len(Rules) THEN Rules[i + 1] ELSE "done"

(* A rule has returned: its error leaves validate_config with `?`, Ok lets
   the next rule run, or ends validate_config with Ok(()) *)
Returned(r) ==
    /\ result = "none"
    /\ IF r # "Ok"
       THEN rule' = rule /\ result' = r
       ELSE /\ rule' = RuleAfter(rule)
            /\ result' = IF RuleAfter(rule) = "done" THEN "Ok" ELSE result
    /\ UNCHANGED <<simulator_config, runtime, driver, parser>>

(* mod.rs 9 *)
ValidateHasServices ==
    /\ rule = "has_services"
    /\ Returned(validate_has_services(simulator_config))

(* mod.rs 10 *)
ValidateServiceDependencies ==
    /\ rule = "service_dependencies"
    /\ \E r \in validate_service_dependencies(simulator_config) : Returned(r)

(* mod.rs 11 *)
ValidateLatencyDistributions ==
    /\ rule = "latency_distributions"
    /\ \E r \in validate_latency_distributions(simulator_config) : Returned(r)

(* mod.rs 12 *)
ValidateErrorRates ==
    /\ rule = "error_rates"
    /\ \E r \in validate_error_rates(simulator_config) : Returned(r)

(* mod.rs 15-17: only where the configuration has a load section *)
ValidateLoadConfig ==
    /\ rule = "load"
    /\ Returned(IF simulator_config.load.some
                THEN validate_load_config(simulator_config.load.value,
                                          simulator_config)
                ELSE "Ok")

InitValidator ==
    /\ simulator_config \in SimulatorConfigs
    /\ rule = Rules[1]
    /\ result = "none"
    /\ DriverIdle
    /\ ParserIdle
    /\ config = Chain
    /\ inv = <<>>
    /\ services = [s \in Services |-> EmptyMap]
    /\ nextChan = 1
    /\ dialled = <<>>
    /\ dialLog = [s \in Services |-> [t \in Services |-> <<>>]]
    /\ errs = 0
    /\ dialFails = 0
    /\ requests = 0

NextValidator ==
    \/ ValidateHasServices
    \/ ValidateServiceDependencies
    \/ ValidateLatencyDistributions
    \/ ValidateErrorRates
    \/ ValidateLoadConfig

SpecValidator == InitValidator /\ [][NextValidator]_vars

----------------------------------------------------------------------------
(* The deployment materialiser and driver, which the repository has twice:
   the orchestrator binary (src/orchestrator/src/main.rs), and the runner's
   launch_simulation_from_yaml (src/runner/src/orchestrator/mod.rs), which
   run_from_input (src/runner/src/main.rs) calls after validate_config.

   The topology document is held in simulator_config, with the
   container_port of every service. *)

(* Result<T>: Ok(value) or Err(message) *)
Ok(value) == [ok |-> TRUE, value |-> value]
Err(error) == [ok |-> FALSE, error |-> error]

(* u16::to_string: the decimal digits *)
Digits == <<"0", "1", "2", "3", "4", "5", "6", "7", "8", "9">>

RECURSIVE to_string(_)
to_string(n) ==
    IF n < 10 THEN <<Digits[n + 1]>>
    ELSE to_string(n \div 10) \o <<Digits[(n % 10) + 1]>>

(* struct Config and its parts (main.rs 24-81, mod.rs 8-61): serde builds
   them only from a document with a load section, a container_port for
   every service and an error_rate for every method *)
Deserializes(document) ==
    /\ document.load.some
    /\ \A s \in DOMAIN document.services :
           /\ "container_port" \in DOMAIN document.services[s]
           /\ \A m \in DOMAIN document.services[s].methods :
                  document.services[s].methods[m].error_rate.some

(* main.rs 137-159, mod.rs 82-105: the entry points in order, the first one
   that names an unknown service or method ends the check *)
RECURSIVE CheckEntryPoints(_, _)
CheckEntryPoints(entry_points, cfg) ==
    IF entry_points = <<>> THEN "Ok"
    ELSE LET entry_point == Head(entry_points)
         IN IF entry_point.service \notin DOMAIN cfg.services
            THEN "Load entry point refers to non-existent service"
            ELSE IF entry_point.method
                        \notin DOMAIN cfg.services[entry_point.service].methods
            THEN "Load entry point refers to non-existent method"
            ELSE CheckEntryPoints(Tail(entry_points), cfg)

(* main.rs 119-167, mod.rs 64-113 *)
read_and_validate_config(document) ==
    IF ~Deserializes(document) THEN "Failed to parse YAML configuration"
    ELSE IF DOMAIN document.services = {}
    THEN "No services defined in the configuration."
    ELSE CheckEntryPoints(document.load.value.entry_points, document)

(* main.rs 172, mod.rs 118: (50051..60000).collect::<Vec<u16>>() *)
PoolFirst == 50051
PoolEnd == 60000

available_ports_Inclusive == [i \in 1..(PoolEnd - PoolFirst + 1) |-> PoolFirst + i - 1]
available_ports == [i \in 1..(PoolEnd - PoolFirst) |-> PoolFirst + i - 1]

(* What available_ports.pop() gives in the i-th turn of the loop: every turn
   takes the last element off, so the i-th turn gets the i-th from the back,
   and None once the vector is empty *)
Pop_Peek(ports, i) ==
    IF ports = <<>> THEN None ELSE Some(ports[Len(ports)])
Pop(ports, i) ==
    IF i > Len(ports) THEN None ELSE Some(ports[Len(ports) - i + 1])

(* the turn of the loop in which services.keys() yields the name *)
Turn(names, service_name) == CHOOSE i \in DOMAIN names : names[i] = service_name

(* main.rs 169-186, mod.rs 115-132: one pop and one insert for every name
   that services.keys() yields; the turn whose pop gives None returns Err and
   drops the map built so far *)
assign_ports(names) ==
    IF \E i \in DOMAIN names : ~Pop(available_ports, i).some
    THEN Err("Ran out of available ports.")
    ELSE Ok([service_name \in {names[i] : i \in DOMAIN names} |->
                Pop(available_ports, Turn(names, service_name)).value])

(* A path is the sequence of the pieces format! and PathBuf::push join. *)
ConfigPath == <<"./service_configs/config.json">>
ServiceConfigPath(service_name) ==
    <<"./service_configs/", service_name, "_config.json">>
ComposePath == <<"./docker-compose.yml">>
ContainerConfigPath == "/app/config.json"

(* mod.rs 150-170: struct GenericServiceServiceConfig of one service *)
GenericServiceServiceConfig(service_name, service_config) ==
    [ip |-> service_name,
     port |-> to_string(service_config.container_port),
     methods |-> service_config.methods]

(* main.rs 353-357: the ServiceConfig written for one service *)
ServiceSpecificConfig(service_config) ==
    [container_port |-> service_config.container_port,
     methods |-> service_config.methods]

(* The outcomes of generate_service_configs: the files after it and what it
   returned.  create_dir_all and fs::write can fail.
   mod.rs 135-194 (runner): one map for all the services, in one file.
   main.rs 343-376 (orchestrator): one file for every service, written in
   the order of the iteration, so that a failure leaves the files written
   before it. *)
generate_service_configs(prog, cfg, names, written) ==
    IF prog = "runner"
    THEN {[files |-> insert(written, ConfigPath,
                            [service_name \in DOMAIN cfg.services |->
                                GenericServiceServiceConfig(
                                    service_name, cfg.services[service_name])]),
           result |-> "Ok"],
          [files |-> written,
           result |-> "Failed to write the single config file"]}
    ELSE {[files |->
              [path \in DOMAIN written
                        \cup {ServiceConfigPath(names[i]) : i \in 1..k} |->
                  IF \E i \in 1..k : path = ServiceConfigPath(names[i])
                  THEN ServiceSpecificConfig(cfg.services[path[2]])
                  ELSE written[path]],
           result |-> IF k = Len(names) THEN "Ok"
                      ELSE "Failed to write config file for service"] :
          k \in 0..Len(names)}

(* What the unit of a service mounts at CONFIG_PATH (mod.rs 268, main.rs
   428) *)
HostConfigPath(prog, service_name) ==
    IF prog = "runner" THEN ConfigPath ELSE ServiceConfigPath(service_name)

(* mod.rs 203-296, main.rs 389-454: the unit of one service *)
ServiceDef(prog, service_name, service_config, host_port) ==
    [container_name |-> service_name,
     ports |-> <<to_string(host_port) \o <<":">>
                 \o to_string(service_config.container_port)>>,
     environment |-> [SERVICE_NAME |-> service_name,
                      SERVICE_PORT |-> to_string(service_config.container_port),
                      CONFIG_PATH |-> ContainerConfigPath],
     volumes |-> <<[host |-> HostConfigPath(prog, service_name),
                    container |-> ContainerConfigPath]>>]

(* mod.rs 196-329, main.rs 379-480: the compose document, or the error for
   a service without a port *)
generate_docker_compose(prog, cfg, ports) ==
    IF \E service_name \in DOMAIN cfg.services : service_name \notin DOMAIN ports
    THEN Err("Port not assigned for service")
    ELSE Ok([services |->
                [service_name \in DOMAIN cfg.services |->
                    ServiceDef(prog, service_name, cfg.services[service_name],
                               ports[service_name])]])

(* generic-service main.rs 23-55 and 90-158: GenericService::new of the
   service of a unit.  The file mounted at CONFIG_PATH is parsed as a map
   from service names to { ip, port, methods }, which the one file of the
   runner is and the file the orchestrator binary writes for a service is
   not; every method needs a latency_distribution and an error_rate; the
   own name is looked up; and for every method a sampler is built, of a
   normal latency and a bernoulli error rate, every other type panics, and
   so do a parameter that is not there and a p outside [0, 1]. *)
GenericService_new(prog, written, service_name) ==
    LET unit == written[ComposePath].services[service_name]
        config_json == written[unit.volumes[1].host]
        own == config_json[unit.environment.SERVICE_NAME].methods
    IN IF prog # "runner" THEN "Failed to parse config file"
       ELSE IF \E s \in DOMAIN config_json :
                   \E m \in DOMAIN config_json[s].methods :
                       ~config_json[s].methods[m].error_rate.some
       THEN "Failed to parse config file"
       ELSE IF unit.environment.SERVICE_NAME \notin DOMAIN config_json
       THEN "Own service not found in config"
       ELSE IF \E m \in DOMAIN own :
                   \/ own[m].latency_distribution.distribution_type # "normal"
                   \/ own[m].error_rate.value.distribution_type # "bernoulli"
       THEN "Unsupported distribution type"
       ELSE IF \E m \in DOMAIN own :
                   \/ ~({"mean", "stddev"}
                           \subseteq DOMAIN own[m].latency_distribution.parameters)
                   \/ "p" \notin DOMAIN own[m].error_rate.value.parameters
       THEN "key not found"
       ELSE IF \E m \in DOMAIN own : own[m].error_rate.value.parameters.p \notin 0..1
       THEN "called Result::unwrap() on an Err value"
       ELSE "running"

(* main.rs 533-600: a worker is spawned for every entry point whose service
   has a port; for the others an error is logged *)
RECURSIVE Spawned(_, _)
Spawned(entry_points, ports) ==
    IF entry_points = <<>> THEN <<>>
    ELSE (IF Head(entry_points).service \in DOMAIN ports
          THEN << <<"spawn", Head(entry_points)>> >>
          ELSE <<>>)
         \o Spawned(Tail(entry_points), ports)

(* main.rs 550-551: (1_000_000.0 / requests_per_second as f64) as u64, the
   period in microseconds.  A u64 is written as its four 16-bit digits, the
   most significant first.  The division by 0.0 gives +inf, which the cast
   saturates to u64::MAX; every other quotient is truncated. *)
period(requests_per_second) ==
    IF requests_per_second = 0 THEN [digit \in 1..4 |-> 2^16 - 1]
    ELSE LET micros == 1000000 \div requests_per_second
         IN <<0, 0, micros \div 2^16, micros % 2^16>>

(* tokio::time::interval asserts that its period is not zero *)
is_zero(duration) == \A digit \in DOMAIN duration : duration[digit] = 0

(* main.rs 538-549: the task tokio::spawn starts for an entry point, with
   the address of the published port and the period; `due` counts the
   ticks of its interval that time has reached, `sent` the requests *)
NewWorker(entry_point, ports) ==
    [entry_point |-> entry_point,
     address |-> <<"http://localhost:", ports[entry_point.service]>>,
     period |-> period(entry_point.requests_per_second),
     pc |-> "spawned", due |-> 0, sent |-> 0, request_counter |-> 0]

(* main.rs 549 and 586-591: a task that panics or returns ends alone, the
   other tasks of the runtime go on *)
Ended_All(tasks, i, how) == [j \in DOMAIN tasks |-> [tasks[j] EXCEPT !.pc = how]]
Ended(tasks, i, how) == [tasks EXCEPT ![i].pc = how]

(* The documents handed to the driver: three services with one method each
   and a load section, sound or with one thing wrong; the document without
   services; and a fleet with one service more than the pool has ports. *)
GoodErrorRate == Some(Distribution("bernoulli", [p |-> 0]))

Document(a, b, latency, error_rate, load) ==
    [services |->
        Entry(SvcA, [container_port |-> 50051,
                     methods |-> Entry(MethM, MethodConfig(a, latency, error_rate))])
        @@ Entry(SvcB, [container_port |-> 50051,
                        methods |-> Entry(MethM, MethodConfig(b, GoodLatency, GoodErrorRate))])
        @@ Entry(SvcC, [container_port |-> 8080,
                        methods |-> Entry(MethM, MethodConfig(<<>>, GoodLatency, GoodErrorRate))]),
     load |-> load]

Documents ==
    LET ToB == << <<Target(SvcB, MethM)>> >>
        ToC == << <<Target(SvcC, MethM)>> >>
        ToA == << <<Target(SvcA, MethM)>> >>
        SoundLoad == Some(LoadConfig(<<EntryPoint(SvcA, MethM, 5),
                                       EntryPoint(SvcB, MethM, 2)>>))
    IN {Document(ToB, ToC, GoodLatency, GoodErrorRate, SoundLoad),
        Document(ToB, ToA, GoodLatency, GoodErrorRate, SoundLoad),
        Document(ToB, ToC, Distribution("normal", [mean |-> 10, stddev |-> 0]),
                 GoodErrorRate, SoundLoad),
        Document(ToB, ToC, GoodLatency,
                 Some(Distribution("bernoulli", [p |-> 2])), SoundLoad),
        Document(ToB, ToC, GoodLatency, None, SoundLoad),
        Document(ToB, ToC, Distribution("uniform", [min |-> 1, max |-> 2]),
                 GoodErrorRate, SoundLoad),
        Document(ToB, ToC, GoodLatency, GoodErrorRate,
                 Some(LoadConfig(<<EntryPoint(SvcA, MethM, 0)>>))),
        Document(ToB, ToC, GoodLatency, GoodErrorRate,
                 Some(LoadConfig(<<EntryPoint(SvcA, MethM, 2000000),
                                   EntryPoint(SvcB, MethM, 2)>>))),
        Document(ToB, ToC, GoodLatency, GoodErrorRate,
                 Some(LoadConfig(<<EntryPoint(SvcA, MethM, 5),
                                   EntryPoint(SvcD, MethM, 5)>>))),
        Document(ToB, ToC, GoodLatency, GoodErrorRate,
                 Some(LoadConfig(<<EntryPoint(SvcA, MethZ, 5)>>))),
        Document(ToB, ToC, GoodLatency, GoodErrorRate, Some(LoadConfig(<<>>))),
        Document(ToB, ToC, GoodLatency, GoodErrorRate, None),
        [services |-> <<>>, load |-> Some(LoadConfig(<<>>))]}

CrowdNames == [i \in 1..(PoolEnd - PoolFirst + 1) |-> <<"s">> \o to_string(i)]

Crowd ==
    [services |-> [service_name \in {CrowdNames[i] : i \in DOMAIN CrowdNames} |->
                      [container_port |-> 50051, methods |-> <<>>]],
     load |-> Some(LoadConfig(<<>>))]

(* The orders in which a HashMap can yield its keys: every order of a few
   names; of the names of the crowd, one order *)
Orders(names) ==
    IF names = DOMAIN Crowd.services THEN {CrowdNames}
    ELSE {order \in [1..Cardinality(names) -> names] :
             \A i, j \in DOMAIN order : i # j => order[i] # order[j]}

(* run_from_input (runner main.rs 20-30) with launch_simulation_from_yaml
   (mod.rs 400-418), and main of the orchestrator (main.rs 88-110): the
   calls in the order they are made *)
Steps_LoadFirst(prog) ==
    IF prog = "orchestrator"
    THEN <<"read_and_validate_config", "assign_ports", "generate_service_configs",
           "generate_docker_compose", "start_load_generation",
           "run_docker_compose", "ctrl_c", "stop_docker_compose">>
    ELSE <<"validate_config", "read_and_validate_config", "assign_ports",
           "generate_service_configs", "generate_docker_compose",
           "run_docker_compose", "ctrl_c", "stop_docker_compose">>
Steps(prog) ==
    IF prog = "orchestrator"
    THEN <<"read_and_validate_config", "assign_ports", "generate_service_configs",
           "generate_docker_compose", "run_docker_compose",
           "start_load_generation", "ctrl_c", "stop_docker_compose">>
    ELSE <<"validate_config", "read_and_validate_config", "assign_ports",
           "generate_service_configs", "generate_docker_compose",
           "run_docker_compose", "ctrl_c", "stop_docker_compose">>

StepAfter(prog, step) ==
    LET i == CHOOSE k \in DOMAIN Steps(prog) : Steps(prog)[k] = step
    IN IF i < Len(Steps(prog)) THEN Steps(prog)[i + 1] ELSE "exit"

(* A call has returned.  Its Err leaves the driver through `?`; after Ok
   the next call is made, and after the last one the driver returns
   Ok(()). *)
Proceeds(r) ==
    IF r = "Ok"
    THEN /\ pc' = StepAfter(program, pc)
         /\ exit' = IF StepAfter(program, pc) = "exit" THEN "Ok" ELSE exit
    ELSE /\ pc' = "exit"
         /\ exit' = r

(* runner main.rs 23: validate_config runs its rules *)
ValidateConfig ==
    /\ pc = "validate_config"
    /\ result = "none"
    /\ NextValidator

(* runner main.rs 23 and 30: the `?` on what validate_config returned *)
ValidateConfigReturned ==
    /\ pc = "validate_config"
    /\ result # "none"
    /\ Proceeds(result)
    /\ UNCHANGED <<program, keys, port_assignments, files, events, workers, validator, runtime, parser>>

(* main.rs 88, mod.rs 400 *)
ReadAndValidateConfig ==
    /\ pc = "read_and_validate_config"
    /\ Proceeds(read_and_validate_config(simulator_config))
    /\ UNCHANGED <<program, keys, port_assignments, files, events, workers, validator, runtime, parser>>

(* main.rs 91, mod.rs 403 *)
AssignPorts ==
    /\ pc = "assign_ports"
    /\ \E r \in {assign_ports(keys)} :
           /\ port_assignments' = IF r.ok THEN Some(r.value) ELSE port_assignments
           /\ Proceeds(IF r.ok THEN "Ok" ELSE r.error)
    /\ UNCHANGED <<program, keys, files, events, workers, validator, runtime, parser>>

(* main.rs 95, mod.rs 407 *)
GenerateServiceConfigs ==
    /\ pc = "generate_service_configs"
    /\ \E r \in generate_service_configs(program, simulator_config, keys, files) :
           /\ files' = r.files
           /\ Proceeds(r.result)
    /\ UNCHANGED <<program, keys, port_assignments, events, workers, validator, runtime, parser>>

(* main.rs 98, mod.rs 410: the document is built and then written, and
   fs::write can fail *)
GenerateDockerCompose ==
    /\ pc = "generate_docker_compose"
    /\ \E r \in {generate_docker_compose(program, simulator_config,
                                         port_assignments.value)} :
           IF ~r.ok
           THEN files' = files /\ Proceeds(r.error)
           ELSE \/ files' = insert(files, ComposePath, r.value) /\ Proceeds("Ok")
                \/ /\ files' = files
                   /\ Proceeds("Failed to write docker-compose.yml file")
    /\ UNCHANGED <<program, keys, port_assignments, events, workers, validator, runtime, parser>>

(* main.rs 101 and 483-505, mod.rs 413 and 331-363: `up -d` runs and ends
   with success, or with another status, or cannot be executed at all.
   With success every container was started, and its service has run
   GenericService::new on the file mounted at CONFIG_PATH. *)
RunDockerCompose ==
    /\ pc = "run_docker_compose"
    /\ \E status \in {"success", "failure", "not executed"} :
           /\ events' = Append(events, <<"up", status>>)
                         \o (IF status = "success"
                             THEN [i \in DOMAIN keys |->
                                     <<"new", keys[i],
                                       GenericService_new(program, files, keys[i])>>]
                             ELSE <<>>)
           /\ Proceeds(IF status = "success" THEN "Ok"
                       ELSE IF status = "failure"
                       THEN "Failed to start Docker Compose. Check output for details."
                       ELSE "Failed to execute 'docker-compose up -d'")
    /\ UNCHANGED <<program, keys, port_assignments, files, workers, validator, runtime, parser>>

(* main.rs 104-105 and 530-604: after the sleep the workers are spawned;
   start_load_generation returns Ok whatever becomes of them *)
StartLoadGeneration ==
    /\ pc = "start_load_generation"
    /\ \E spawned \in {Spawned(simulator_config.load.value.entry_points,
                                port_assignments.value)} :
           /\ events' = events \o spawned
           /\ workers' = [i \in DOMAIN spawned |->
                             NewWorker(spawned[i][2], port_assignments.value)]
    /\ Proceeds("Ok")
    /\ UNCHANGED <<program, keys, port_assignments, files, validator, runtime, parser>>

(* main.rs 108, mod.rs 416: ctrl_c().await? ends with the signal, or with
   the error of installing the listener; until then the driver waits *)
CtrlC ==
    /\ pc = "ctrl_c"
    /\ \/ events' = Append(events, <<"signal">>) /\ Proceeds("Ok")
       \/ events' = events /\ Proceeds("ctrl_c failed")
    /\ UNCHANGED <<program, keys, port_assignments, files, workers, validator, runtime, parser>>

(* main.rs 110 and 507-528, mod.rs 418 and 365-396 *)
StopDockerCompose ==
    /\ pc = "stop_docker_compose"
    /\ \E status \in {"success", "failure", "not executed"} :
           /\ events' = Append(events, <<"down", status>>)
           /\ Proceeds(IF status = "success" THEN "Ok"
                       ELSE IF status = "failure"
                       THEN "Failed to stop Docker Compose. Check output for details."
                       ELSE "Failed to execute 'docker-compose down'")
    /\ UNCHANGED <<program, keys, port_assignments, files, workers, validator, runtime, parser>>

(* The tasks run until main returns and the runtime is dropped. *)
Alive(i) == pc # "exit" /\ i \in DOMAIN workers

(* main.rs 550-552: the interval is created; its first tick is immediate *)
WorkerInterval(i) ==
    /\ Alive(i)
    /\ workers[i].pc = "spawned"
    /\ workers' = IF is_zero(workers[i].period)
                  THEN Ended(workers, i, "panicked")
                  ELSE [workers EXCEPT ![i].pc = "connect", ![i].due = 1]
    /\ UNCHANGED <<program, pc, keys, port_assignments, files, events, exit,
                   validator, runtime, parser>>

(* main.rs 554-555 and 586-591: endpoint.connect().await gives the channel,
   or the error that is logged and ends the task *)
WorkerConnect(i) ==
    /\ Alive(i)
    /\ workers[i].pc = "connect"
    /\ \/ workers' = [workers EXCEPT ![i].pc = "tick"]
       \/ workers' = Ended(workers, i, "ended")
    /\ UNCHANGED <<program, pc, keys, port_assignments, files, events, exit,
                   validator, runtime, parser>>

(* Time reaches the next tick of the interval, whatever the task does. *)
WorkerElapse(i) ==
    /\ Alive(i)
    /\ workers[i].pc \in {"connect", "tick", "get_data"}
    /\ workers[i].due < MaxTicks
    /\ workers' = [workers EXCEPT ![i].due = @ + 1]
    /\ UNCHANGED <<program, pc, keys, port_assignments, files, events, exit,
                   validator, runtime, parser>>

(* main.rs 559-565: interval.tick().await returns once for every tick that
   is due (missed ticks are delivered in a burst), and the request is sent *)
WorkerGetData(i) ==
    /\ Alive(i)
    /\ workers[i].pc = "tick"
    /\ workers[i].due > workers[i].sent
    /\ workers' = [workers EXCEPT ![i].pc = "get_data", ![i].sent = @ + 1]
    /\ UNCHANGED <<program, pc, keys, port_assignments, files, events, exit,
                   validator, runtime, parser>>

(* main.rs 565-580: client.get_data(request).await returns, if it ever
   does: Ok is counted, Err is logged, and the loop goes to the next tick *)
WorkerResponse(i) ==
    /\ Alive(i)
    /\ workers[i].pc = "get_data"
    /\ \/ workers' = [workers EXCEPT ![i].pc = "tick", ![i].request_counter = @ + 1]
       \/ workers' = [workers EXCEPT ![i].pc = "tick"]
    /\ UNCHANGED <<program, pc, keys, port_assignments, files, events, exit,
                   validator, runtime, parser>>

InitDriver ==
    /\ program \in {"runner", "orchestrator"}
    /\ simulator_config \in Documents \cup (IF program = "orchestrator" THEN {Crowd} ELSE {})
    /\ keys \in Orders(DOMAIN simulator_config.services)
    /\ pc = Steps(program)[1]
    /\ rule = IF program = "runner" THEN Rules[1] ELSE "none"
    /\ result = "none"
    /\ port_assignments = None
    /\ files = <<>>
    /\ events = <<>>
    /\ exit = "none"
    /\ workers = <<>>
    /\ ParserIdle
    /\ config = Chain
    /\ inv = <<>>
    /\ services = [s \in Services |-> EmptyMap]
    /\ nextChan = 1
    /\ dialled = <<>>
    /\ dialLog = [s \in Services |-> [t \in Services |-> <<>>]]
    /\ errs = 0
    /\ dialFails = 0
    /\ requests = 0

NextDriver ==
    \/ ValidateConfig
    \/ ValidateConfigReturned
    \/ ReadAndValidateConfig
    \/ AssignPorts
    \/ GenerateServiceConfigs
    \/ GenerateDockerCompose
    \/ RunDockerCompose
    \/ StartLoadGeneration
    \/ CtrlC
    \/ StopDockerCompose
    \/ \E i \in DOMAIN workers :
           \/ WorkerInterval(i)
           \/ WorkerConnect(i)
           \/ WorkerElapse(i)
           \/ WorkerGetData(i)
           \/ WorkerResponse(i)

SpecDriver == InitDriver /\ [][NextDriver]_vars

----------------------------------------------------------------------------
(* The parser (src/runner/src/parser, src/input-parser/src/parser): serde's
   derived Deserialize and Serialize of SimulatorConfig, with serde_json.

   A JSON text is held as the value it denotes: an object is a function of
   its keys, an array a sequence, and a number keeps whether it was written
   with a fraction.  Malformed is a text that denotes no value, Absent a
   key that is not written. *)
JNull == [t |-> "null"]
JNum(n, float) == [t |-> "number", v |-> n, float |-> float]
JStr(str) == [t |-> "string", v |-> str]
JArr(items) == [t |-> "array", v |-> items]
JObj(members) == [t |-> "object", v |-> members]
Malformed == [t |-> "malformed"]
Absent == [t |-> "absent"]

(* The types of the fields (parser/mod.rs).  A field of a struct has the
   key serde reads and writes, which #[serde(rename)] sets, and its name. *)
Scalar(k) == [k |-> k]
Of(k, of) == [k |-> k, of |-> of]
Field(key, name, ty) == [key |-> key, name |-> name, ty |-> ty]
Struct(fields) == [k |-> "struct", fields |-> fields]

(* struct Distribution (runner), LatencyDistribution (input-parser) *)
DistributionType ==
    Struct(<<Field("type", "distribution_type", Scalar("String")),
             Field("parameters", "parameters", Of("HashMap", Scalar("f64")))>>)

(* struct ErrorRate (input-parser) *)
ErrorRateType ==
    Struct(<<Field("type", "error_type", Scalar("String")),
             Field("value", "value", Scalar("f64"))>>)

(* struct SimulatorConfig with ServiceConfig, MethodConfig, LoadConfig and
   EntryPoint, of the crate *)
SimulatorConfigType(crate) ==
    LET MethodConfigType ==
            Struct(<<Field("calls", "calls",
                           Of("Vec", Of("Vec", Scalar("String")))),
                     Field("latency_distribution", "latency_distribution",
                           DistributionType),
                     Field("error_rate", "error_rate",
                           Of("Option", IF crate = "runner" THEN DistributionType
                                        ELSE ErrorRateType))>>)
        Methods == Field("methods", "methods", Of("HashMap", MethodConfigType))
        ServiceConfigType ==
            IF crate = "runner"
            THEN Struct(<<Field("port", "port", Scalar("u16")), Methods>>)
            ELSE Struct(<<Field("ip", "ip", Scalar("String")),
                          Field("port", "port", Scalar("String")), Methods>>)
        EntryPointType ==
            Struct(<<Field("service", "service", Scalar("String")),
                     Field("method", "method", Scalar("String")),
                     Field("requests_per_second", "requests_per_second",
                           Scalar("u32"))>>)
        LoadConfigType ==
            Struct(<<Field("entry_points", "entry_points",
                           Of("Vec", EntryPointType))>>)
    IN Struct(<<Field("services", "services", Of("HashMap", ServiceConfigType)),
                Field("load", "load", Of("Option", LoadConfigType))>>)

(* The results of the parts, put together: the first error, or the values *)
Collect_Lenient(results) ==
    Ok([i \in DOMAIN results |-> IF results[i].ok THEN results[i].value ELSE None])
Collect(results) ==
    IF \A i \in DOMAIN results : results[i].ok
    THEN Ok([i \in DOMAIN results |-> results[i].value])
    ELSE results[CHOOSE i \in DOMAIN results : ~results[i].ok]

(* #[derive(Deserialize)] with serde_json: a struct is read from an object,
   its unknown keys are skipped, a key that is not there is None for an
   Option and an error for every other type; null is None; an unsigned
   integer is read from a number without fraction that is in range, an f64
   from any number *)
RECURSIVE from_value(_, _)
from_value(ty, json) ==
    CASE ty.k = "String" ->
           IF json.t = "string" THEN Ok(json.v) ELSE Err("invalid type")
      [] ty.k \in {"u16", "u32"} ->
           IF json.t # "number" \/ json.float THEN Err("invalid type")
           ELSE IF json.v < 0 \/ (ty.k = "u16" /\ json.v >= 2^16)
           THEN Err("invalid value")
           ELSE Ok(json.v)
      [] ty.k = "f64" ->
           IF json.t = "number" THEN Ok(json.v) ELSE Err("invalid type")
      [] ty.k = "Option" ->
           IF json.t = "null" THEN Ok(None)
           ELSE LET inner == from_value(ty.of, json)
                IN IF inner.ok THEN Ok(Some(inner.value)) ELSE inner
      [] ty.k \in {"Vec", "HashMap"} ->
           IF json.t # (IF ty.k = "Vec" THEN "array" ELSE "object")
           THEN Err("invalid type")
           ELSE Collect([i \in DOMAIN json.v |-> from_value(ty.of, json.v[i])])
      [] ty.k = "struct" ->
           IF json.t # "object" THEN Err("invalid type")
           ELSE LET read(field) ==
                        IF field.key \in DOMAIN json.v
                        THEN from_value(field.ty, json.v[field.key])
                        ELSE IF field.ty.k = "Option" THEN Ok(None)
                        ELSE Err("missing field")
                    parts == Collect([i \in DOMAIN ty.fields |-> read(ty.fields[i])])
                IN IF ~parts.ok THEN parts
                   ELSE Ok([name \in {ty.fields[i].name : i \in DOMAIN ty.fields} |->
                              parts.value[CHOOSE i \in DOMAIN ty.fields :
                                              ty.fields[i].name = name]])

(* parser/json.rs 16-21: serde_json::from_str with the context of the
   error; a text that is no JSON is an error of from_str as well *)
parse_json_str(crate, text) ==
    IF text = Malformed THEN Err("Failed to parse JSON content")
    ELSE LET cfg == from_value(SimulatorConfigType(crate), text)
         IN IF cfg.ok THEN cfg ELSE Err("Failed to parse JSON content")

(* #[derive(Serialize)] with serde_json: every field is written under its
   key, None as null, an unsigned integer without fraction and an f64 with
   one (150.0) *)
Written_Name(field) == field.name
Written(field) == field.key

RECURSIVE to_value(_, _)
to_value(ty, x) ==
    CASE ty.k = "String" -> JStr(x)
      [] ty.k \in {"u16", "u32"} -> JNum(x, FALSE)
      [] ty.k = "f64" -> JNum(x, TRUE)
      [] ty.k = "Option" -> IF x.some THEN to_value(ty.of, x.value) ELSE JNull
      [] ty.k = "Vec" -> JArr([i \in DOMAIN x |-> to_value(ty.of, x[i])])
      [] ty.k = "HashMap" -> JObj([i \in DOMAIN x |-> to_value(ty.of, x[i])])
      [] ty.k = "struct" ->
           JObj([key \in {Written(ty.fields[i]) : i \in DOMAIN ty.fields} |->
                   LET field == ty.fields[CHOOSE i \in DOMAIN ty.fields :
                                              Written(ty.fields[i]) = key]
                   IN to_value(field.ty, x[field.name])])

(* The documents handed to the parser: services A and B with one method
   each, every part written as it should be, written with another type or
   out of range, left out, or null; with and without keys the structs do
   not have; and a text that is no JSON. *)
Object(members) ==
    JObj([key \in {k \in DOMAIN members : members[k] # Absent} |-> members[key]])

JsonDocument(ip, port, calls, mean, error_rate, load, unknown) ==
    LET latency == Object([type |-> JStr("normal"), unit |-> unknown,
                           parameters |-> JObj([mean |-> mean,
                                                stddev |-> JNum(2, FALSE)])])
        method(stages) == Object([calls |-> stages, error_rate |-> error_rate,
                                  latency_distribution |-> latency,
                                  retries |-> unknown])
        service(stages) == Object([ip |-> ip, port |-> port,
                                   methods |-> JObj(Entry(MethM, method(stages)))])
    IN Object([services |-> JObj(Entry(SvcA, service(calls))
                                 @@ Entry(SvcB, service(JArr(<<>>)))),
               load |-> load, version |-> unknown])

JsonDocuments ==
    LET ToB == JStr(Target(SvcB, MethM))
        entry_points(rps) ==
            JObj([entry_points |->
                     JArr(<<Object([service |-> JStr(SvcA), method |-> JStr(MethM),
                                    requests_per_second |-> rps])>>)])
    IN {Malformed, JObj(<<>>), JObj([services |-> JObj(<<>>)])} \cup
       {JsonDocument(ip, port, calls, mean, error_rate, load, unknown) :
          ip \in {Absent, JStr("127.0.0.1")},
          port \in {JNum(8000, FALSE), JNum(70000, FALSE), JStr("8000"), Absent},
          calls \in {JArr(<<>>), JArr(<<JArr(<<ToB, ToB>>), JArr(<<ToB>>)>>),
                     JArr(<<ToB>>), Absent},
          mean \in {JNum(150, FALSE), JNum(150, TRUE), JStr("150")},
          error_rate \in {Absent, JNull,
                          JObj([type |-> JStr("bernoulli"),
                                parameters |-> JObj([p |-> JNum(1, FALSE)])]),
                          JObj([type |-> JStr("percentage"), value |-> JNum(1, TRUE)])},
          load \in {Absent, JNull, entry_points(JNum(10, FALSE)),
                    entry_points(JNum(-1, FALSE)), JObj(<<>>)},
          unknown \in {Absent, JStr("x")}}

(* parser/json.rs 16-21 *)
ParseJsonStr ==
    /\ pc = "parse_json_str"
    /\ parsed = None
    /\ parsed' = parse_json_str(program, content)
    /\ UNCHANGED <<content, printed, reparsed, validator, runtime, driver>>

(* serde_json::to_string(&config) of the configuration that was parsed *)
Serialize ==
    /\ pc = "parse_json_str"
    /\ parsed # None /\ parsed.ok
    /\ printed = None
    /\ printed' = to_value(SimulatorConfigType(program), parsed.value)
    /\ UNCHANGED <<content, parsed, reparsed, validator, runtime, driver>>

(* parse_json_str of the text that was written *)
Reparse ==
    /\ pc = "parse_json_str"
    /\ printed # None
    /\ reparsed = None
    /\ reparsed' = parse_json_str(program, printed)
    /\ UNCHANGED <<content, parsed, printed, validator, runtime, driver>>

InitParser ==
    /\ program \in {"runner", "input-parser"}
    /\ content \in JsonDocuments
    /\ pc = "parse_json_str"
    /\ parsed = None
    /\ printed = None
    /\ reparsed = None
    /\ keys = <<>>
    /\ port_assignments = None
    /\ files = <<>>
    /\ events = <<>>
    /\ exit = "none"
    /\ workers = <<>>
    /\ ValidatorIdle
    /\ config = Chain
    /\ inv = <<>>
    /\ services = [s \in Services |-> EmptyMap]
    /\ nextChan = 1
    /\ dialled = <<>>
    /\ dialLog = [s \in Services |-> [t \in Services |-> <<>>]]
    /\ errs = 0
    /\ dialFails = 0
    /\ requests = 0

NextParser ==
    \/ ParseJsonStr
    \/ Serialize
    \/ Reparse

SpecParser == InitParser /\ [][NextParser]_vars

----------------------------------------------------------------------------
(* The submission handlers: handle_submit of the runner's HTTP server
   (src/runner/src/server/http.rs) and parse_input of the input-parser's
   gRPC server (src/input-parser/src/server/grpc.rs).  One request is
   followed from the handler's entry to its reply: content is the request,
   events the calls to the orchestrator, exit the reply. *)

(* http.rs 41-43: the body warp has read as a JSON value (a body that is no
   JSON does not reach the handler); grpc.rs 22: the ParseRequest *)
HttpRequest(json_input) == [json_input |-> json_input]
ParseRequest(json_config, forward_to_orchestrator) ==
    [json_config |-> json_config,
     forward_to_orchestrator |-> forward_to_orchestrator]

Requests(prog) ==
    IF prog = "runner"
    THEN {HttpRequest(document) : document \in JsonDocuments \ {Malformed}}
    ELSE {ParseRequest(document, forward) :
             document \in JsonDocuments, forward \in BOOLEAN}

(* http.rs 46: json_input.to_string(); grpc.rs 25: req.json_config *)
json_str(prog, request) ==
    IF prog = "runner" THEN request.json_input ELSE request.json_config

(* The replies: warp::reply::with_status of a JSON body (http.rs), Err of a
   tonic Status or Ok of a ParseResponse (grpc.rs) *)
BadRequest(prog, error) ==
    IF prog = "runner"
    THEN [status |-> 400, success |-> FALSE, error |-> error]
    ELSE [code |-> "InvalidArgument", message |-> error]
InternalError(prog, error) ==
    IF prog = "runner"
    THEN [status |-> 500, success |-> FALSE, error |-> error]
    ELSE [code |-> "Internal", message |-> error]
Accepted(prog, simulation_id) ==
    IF prog = "runner"
    THEN [status |-> 200, success |-> TRUE, simulation_id |-> simulation_id]
    ELSE [code |-> "Ok", success |-> TRUE, simulation_id |-> simulation_id]

(* http.rs 52-60, grpc.rs 29-30: where the handler goes on what
   validate_config returned; the variant goes on whatever it returned *)
AfterValidation_Ungated(r) == "generate_yaml"
AfterValidation(r) == IF r = "Ok" THEN "generate_yaml" ELSE "replied"

(* http.rs 49-50 and 92-98, grpc.rs 25-26: parse_json_str and its error *)
HandlerParse ==
    /\ pc = "parse_json_str"
    /\ LET config_result == parse_json_str(program, json_str(program, content))
       IN /\ parsed' = config_result
          /\ IF config_result.ok
             THEN /\ pc' = "validate_config"
                  /\ simulator_config' = config_result.value
                  /\ rule' = IF program = "runner" THEN Rules[1] ELSE rule
                  /\ exit' = exit
             ELSE /\ pc' = "replied"
                  /\ exit' = BadRequest(program,
                                        IF program = "runner"
                                        THEN "JSON parsing error" ELSE "Invalid JSON")
                  /\ UNCHANGED <<simulator_config, rule>>
    /\ UNCHANGED <<result, program, keys, port_assignments, files, events,
                   workers, content, printed, reparsed, runtime>>

(* http.rs 52: the runner's validate_config runs its rules *)
HandlerValidate ==
    /\ program = "runner"
    /\ pc = "validate_config"
    /\ result = "none"
    /\ NextValidator

(* grpc.rs 29: the call of validate_config; the validator module of the
   input-parser crate is not among the sources, so the call returns Ok or
   an error, whichever *)
InputParserValidate ==
    /\ program = "input-parser"
    /\ pc = "validate_config"
    /\ result = "none"
    /\ \E r \in {"Ok", "Err"} : result' = r
    /\ UNCHANGED <<simulator_config, rule, runtime, driver, parser>>

(* http.rs 52-60, grpc.rs 29-30: the error of validate_config is replied *)
HandlerValidated ==
    /\ pc = "validate_config"
    /\ result # "none"
    /\ pc' = AfterValidation(result)
    /\ exit' = IF result = "Ok" THEN exit
               ELSE BadRequest(program, "Validation error")
    /\ UNCHANGED <<program, keys, port_assignments, files, events, workers,
                   validator, runtime, parser>>

(* http.rs 63-64, grpc.rs 33-34: generate_simulator_yaml or
   generate_docker_compose_yaml (generator/yaml.rs); the serialisation of
   these structs has no failing case.  The YAML text is held as the
   configuration it was written from. *)
GenerateYaml ==
    /\ pc = "generate_yaml"
    /\ printed' = Some(parsed.value)
    /\ pc' = "submit"
    /\ UNCHANGED <<program, keys, port_assignments, files, events, exit, workers,
                   content, parsed, reparsed, validator, runtime>>

(* http.rs 66: the runner submits every configuration; grpc.rs 37: the
   input-parser the ones whose request has the forward flag *)
Forwards(prog, request) ==
    IF prog = "runner" THEN TRUE ELSE request.forward_to_orchestrator

(* grpc.rs 37, 42-44: without the forward flag nothing is submitted and the
   simulation id is empty *)
NotForwarded ==
    /\ pc = "submit"
    /\ ~Forwards(program, content)
    /\ pc' = "replied"
    /\ exit' = Accepted(program, "")
    /\ UNCHANGED <<program, keys, port_assignments, files, events, workers,
                   validator, runtime, parser>>

(* http.rs 66-81, grpc.rs 37-41, client/grpc.rs 8-37:
   submit_config_to_orchestrator connects, sends the YAML and reads the
   response; each of the three can fail *)
SubmitOutcomes ==
    {"Failed to connect to orchestrator", "gRPC error",
     "Failed to submit configuration", "Ok"}

SubmitConfigToOrchestrator ==
    /\ pc = "submit"
    /\ Forwards(program, content)
    /\ \E outcome \in SubmitOutcomes :
           /\ events' = Append(events, <<"submit_config_to_orchestrator",
                                         printed.value, outcome>>)
           /\ exit' = IF outcome = "Ok" THEN Accepted(program, "simulation_id")
                      ELSE InternalError(program, "Orchestrator error")
    /\ pc' = "replied"
    /\ UNCHANGED <<program, keys, port_assignments, files, workers,
                   validator, runtime, parser>>

InitServer ==
    /\ program \in {"runner", "input-parser"}
    /\ content \in Requests(program)
    /\ pc = "parse_json_str"
    /\ parsed = None
    /\ printed = None
    /\ reparsed = None
    /\ keys = <<>>
    /\ port_assignments = None
    /\ files = <<>>
    /\ events = <<>>
    /\ exit = "none"
    /\ workers = <<>>
    /\ ValidatorIdle
    /\ config = Chain
    /\ inv = <<>>
    /\ services = [s \in Services |-> EmptyMap]
    /\ nextChan = 1
    /\ dialled = <<>>
    /\ dialLog = [s \in Services |-> [t \in Services |-> <<>>]]
    /\ errs = 0
    /\ dialFails = 0
    /\ requests = 0

NextServer ==
    \/ HandlerParse
    \/ HandlerValidate
    \/ InputParserValidate
    \/ HandlerValidated
    \/ GenerateYaml
    \/ NotForwarded
    \/ SubmitConfigToOrchestrator

SpecServer == InitServer /\ [][NextServer]_vars

----------------------------------------------------------------------------
(* What the properties below speak of. *)

Live == {n \in Invs : inv[n].pc # "gone"}

(* The invocation has left the loop over its rows: it is at the point of
   returning, or has returned. *)
Drained(v) == v.pc \in {"sleep", "sample", "ok", "err"}

Pos(v) == 1..Len(v.call_list)

(* The positions of the caller's own records of leg i of stage k. *)
OwnOf(v, k, i) ==
    {p \in Pos(v) : v.src[p].own /\ v.src[p].stage = k /\ v.src[p].leg = i}

Own(v) == {p \in Pos(v) : v.src[p].own}

(* The plan of the invocation's method, empty for a method that has none. *)
Plan(v) ==
    IF v.svc \in DOMAIN config /\ v.method_name \in DOMAIN config[v.svc]
    THEN Rows(v) ELSE <<>>

(* <<stage, leg>> of every leg of the plan. *)
Legs(v) ==
    UNION {{<<k, i>> : i \in 1..Len(Plan(v)[k])} : k \in 1..Len(Plan(v))}

Called(v) == {v.futures[j].leg : j \in DOMAIN v.futures}

(* C1: no request to a leg of a stage is sent before every leg of every
   earlier stage of the plan has answered Ok at least once. *)
StageOrderingStrict ==
    \A n \in Live : \A e \in inv[n].issued : \A d \in Legs(inv[n]) :
        d[1] < e[1] => d \in inv[n].okLegs

(* A request of the second stage has been sent after a leg of the first
   stage had failed once. *)
StageOrderingStrictWitness ==
    \E n \in Live :
        /\ \E e \in inv[n].issued : e[1] = 2
        /\ \E p \in Own(inv[n]) :
              inv[n].src[p].stage = 1 /\ inv[n].call_list[p].was_an_error

(* C2: an invocation that has left the loop over its rows holds, for every
   leg of every stage, a record of its own for that leg with
   was_an_error = false and the leg's method name. *)
RetryClosure ==
    \A n \in Live : Drained(inv[n]) =>
        \A d \in Legs(inv[n]) :
            /\ d \in inv[n].okLegs
            /\ \E p \in OwnOf(inv[n], d[1], d[2]) :
                  /\ ~inv[n].call_list[p].was_an_error
                  /\ inv[n].call_list[p].method_name =
                         Plan(inv[n])[d[1]][d[2]].method_name

(* A two-stage invocation has returned Ok after a leg of it had failed. *)
RetryClosureWitness ==
    \E n \in Live :
        /\ inv[n].pc = "ok"
        /\ Len(Plan(inv[n])) >= 2
        /\ \E p \in Own(inv[n]) : inv[n].call_list[p].was_an_error

(* A leg whose latest record is an error record of round r is being called
   again: the invocation is in round r + 1 of that stage, with the leg among
   the futures. *)
RetriedAtOnce(v) ==
    \A d \in Legs(v) : \A p \in OwnOf(v, d[1], d[2]) :
        (v.call_list[p].was_an_error /\ \A q \in OwnOf(v, d[1], d[2]) : q <= p) =>
            /\ v.pc = "join"
            /\ v.stage = d[1]
            /\ v.round = v.src[p].round + 1
            /\ d[2] \in Called(v)

(* C3: the legs a round calls are, in index order, the legs of the stage
   without a success so far; from the second round on these are exactly the
   legs that failed in the round before, and a leg that failed is called in
   the very next round, however many rounds there have been. *)
EagerRetry ==
    \A n \in Live :
        LET v == inv[n]
            notYet == {i \in DOMAIN v.succeeded :
                          \A p \in OwnOf(v, v.stage, i) : v.call_list[p].was_an_error}
            failedBefore == {i \in DOMAIN v.succeeded :
                                \E p \in OwnOf(v, v.stage, i) :
                                    /\ v.src[p].round = v.round - 1
                                    /\ v.call_list[p].was_an_error}
        IN /\ RetriedAtOnce(v)
           /\ v.pc = "join" =>
                 /\ Called(v) = notYet
                 /\ Called(v) # {}
                 /\ \A j1, j2 \in DOMAIN v.futures :
                       j1 < j2 => v.futures[j1].leg < v.futures[j2].leg
                 /\ \A j \in DOMAIN v.futures :
                       /\ v.futures[j].service_name =
                              Plan(v)[v.stage][v.futures[j].leg].service_name
                       /\ v.futures[j].method_name =
                              Plan(v)[v.stage][v.futures[j].leg].method_name
                 /\ v.round > 1 => Called(v) = failedBefore

(* A second round of a stage of two legs calls only the leg that failed. *)
EagerRetryWitness ==
    \E n \in Live :
        /\ inv[n].pc = "join"
        /\ inv[n].round = 2
        /\ Len(inv[n].succeeded) = 2
        /\ Len(inv[n].futures) = 1

(* C4: the caller's own records of one leg are error records followed by at
   most one success record, which is the last; a leg with a success is not
   in flight again; on leaving the loop every leg has exactly one success
   record. *)
LegStateMachine ==
    \A n \in Live : \A d \in Legs(inv[n]) :
        LET v == inv[n]
            mine == OwnOf(v, d[1], d[2])
            good == {p \in mine : ~v.call_list[p].was_an_error}
        IN /\ \A p, q \in mine : p < q => v.call_list[p].was_an_error
           /\ (good # {} /\ v.pc = "join" /\ v.stage = d[1]) => d[2] \notin Called(v)
           /\ Drained(v) => Cardinality(good) = 1

(* One failure, then success: an error record, a success record, and the
   caller returns Ok. *)
LegStateMachineWitness ==
    \E n \in Live : \E d \in Legs(inv[n]) :
        LET v == inv[n]
            mine == OwnOf(v, d[1], d[2])
        IN /\ v.pc = "ok"
           /\ Cardinality(mine) = 2
           /\ \E p, q \in mine :
                 p < q /\ v.call_list[p].was_an_error /\ ~v.call_list[q].was_an_error

(* C5: outside a round, the caller's own records are as many as the
   call_service futures it has created; in a round, the futures of the round
   are still to be recorded; a method with an empty or absent plan creates
   none and its trace is empty. *)
TraceAccretion ==
    \A n \in Live :
        LET v == inv[n]
        IN /\ v.pc \in {"sleep", "sample", "ok", "err"} =>
                 Cardinality(Own(v)) = v.attempts
           /\ v.pc = "join" =>
                 Cardinality(Own(v)) + Len(v.futures) = v.attempts
           /\ (v.pc # "recv" /\ v.pc # "panic" /\ Legs(v) = {}) =>
                 v.attempts = 0 /\ v.call_list = <<>>

(* An invocation has returned after more attempts than its plan has legs. *)
TraceAccretionWitness ==
    \E n \in Live :
        /\ inv[n].pc = "ok"
        /\ inv[n].attempts > Cardinality(Legs(inv[n]))
        /\ Cardinality(Own(inv[n])) = inv[n].attempts

(* The record of a successful call of method m. *)
Success(m) == [method_name |-> m, was_an_error |-> FALSE]

NoErrorIn(v) == \A p \in Pos(v) : ~v.call_list[p].was_an_error

(* The records call_list[p - m .. p - 1] are the callee's trace sub, and came
   in with the caller's own record at p. *)
BlockBefore(v, p, sub) ==
    /\ p > Len(sub)
    /\ \A q \in 1..Len(sub) :
          LET at == p - Len(sub) + q - 1
          IN /\ v.call_list[at] = sub[q]
             /\ ~v.src[at].own
             /\ v.src[at].stage = v.src[p].stage
             /\ v.src[at].leg = v.src[p].leg
             /\ v.src[at].round = v.src[p].round

(* C6: the trace a successful call returned stands, whole and in order,
   immediately before the caller's own record of that call, and every record
   that is not the caller's own stands in such a block; a chain
   A.ma -> B.mb -> C.mc without errors returns, at A, the record of C.mc
   and then the record of B.mb. *)
CausalOrder ==
    \A n \in Live :
        LET v == inv[n]
        IN /\ \A p \in Own(v) : BlockBefore(v, p, v.src[p].sub)
           /\ \A p \in Own(v) : v.call_list[p].was_an_error => v.src[p].sub = <<>>
           /\ \A q \in Pos(v) \ Own(v) :
                 \E p \in Own(v) : q < p /\ q >= p - Len(v.src[p].sub)
           /\ (config = Chain /\ v.svc = "A" /\ v.pc = "ok" /\ NoErrorIn(v)) =>
                 v.call_list = <<Success("mc"), Success("mb")>>

(* The chain has returned, at A, a trace without errors. *)
CausalOrderWitness ==
    \E n \in Live :
        /\ config = Chain /\ inv[n].svc = "A" /\ inv[n].pc = "ok"
        /\ inv[n].call_list = <<Success("mc"), Success("mb")>>

(* C7: the caller's own records of one round stand in increasing leg index;
   the fan-out [B.mb, C.mc] without errors returns the record of B.mb and
   then the record of C.mc. *)
TieBreak ==
    \A n \in Live :
        LET v == inv[n]
        IN /\ \A p, q \in Own(v) :
                 (p < q /\ v.src[p].stage = v.src[q].stage
                        /\ v.src[p].round = v.src[q].round) =>
                     v.src[p].leg < v.src[q].leg
           /\ (config = FanOut /\ v.svc = "A" /\ v.pc = "ok" /\ NoErrorIn(v)) =>
                 v.call_list = <<Success("mb"), Success("mc")>>

(* Two legs of one round were recorded in index order although the answer of
   the second arrived first. *)
TieBreakWitness ==
    \E n \in Live : \E p, q \in Own(inv[n]) :
        /\ p < q
        /\ inv[n].src[p].stage = inv[n].src[q].stage
        /\ inv[n].src[p].round = inv[n].src[q].round
        /\ inv[n].src[p].arr > inv[n].src[q].arr

(* C8: in the trace of an invocation, a record that comes from an earlier
   stage (the caller's own or one of the callee's) stands before every
   record that comes from a later stage. *)
StageOrderInTrace ==
    \A n \in Live : \A p, q \in Pos(inv[n]) :
        inv[n].src[p].stage < inv[n].src[q].stage => p < q

(* A returned trace holds a callee's record and an error record of the first
   stage and a record of the second stage. *)
StageOrderInTraceWitness ==
    \E n \in Live :
        LET v == inv[n]
        IN /\ v.pc = "ok"
           /\ \E p \in Pos(v) : v.src[p].stage = 1 /\ ~v.src[p].own
           /\ \E p \in Pos(v) : v.src[p].stage = 1 /\ v.call_list[p].was_an_error
           /\ \E p \in Pos(v) : v.src[p].stage = 2

(* The channels held by the futures of service s that call target t. *)
Channels(s, t) ==
    UNION {{inv[n].futures[j].client : j \in
               {j \in DOMAIN inv[n].futures :
                   /\ inv[n].futures[j].service_name = t
                   /\ inv[n].futures[j].client # 0}} :
           n \in {n \in Invs : inv[n].pc = "join" /\ inv[n].svc = s}}

(* C9: a service dials a target successfully at most once, and all the
   requesters of the target hold the same channel. *)
SingleDial ==
    \A s, t \in Services :
        /\ Cardinality({p \in DOMAIN dialLog[s][t] : dialLog[s][t][p] = "ok"}) <= 1
        /\ Cardinality(Channels(s, t)) <= 1

(* C10: a step in which a dial fails changes no connection cache and creates
   no channel; a cache holds an entry for a target only after a successful
   dial to it, so after failed dials alone the next lookup misses and dials. *)
NoPoison ==
    \A s \in Services : \A t \in DOMAIN services[s] :
        /\ services[s][t] \in 1..(nextChan - 1)
        /\ \E p \in DOMAIN dialLog[s][t] : dialLog[s][t][p] = "ok"

FailedDialLeavesCache ==
    /\ []NoPoison
    /\ [][dialFails' # dialFails => (services' = services /\ nextChan' = nextChan)]_vars

(* After a failed dial to a target, the same service has dialled the target
   again. *)
FailedDialLeavesCacheWitness ==
    \E s, t \in Services : \E p, q \in DOMAIN dialLog[s][t] :
        p < q /\ dialLog[s][t][p] = "fail" /\ dialLog[s][t][q] = "ok"

(* C11: a step in which a dial fails leaves every invocation running: the
   invocation whose leg dialled stays in its round, to record the leg as an
   error and call it again, and no invocation is unwound. *)
DialFailureIsFailedLeg ==
    [][dialFails' # dialFails =>
          \A n \in Invs : inv'[n].pc = inv[n].pc /\ inv'[n].pc # "panic"]_vars

(* C12: an invocation starts its latency sleep only from the loop over its
   rows (or from the method lookup when it has no plan), with every leg of
   every stage answered Ok; its error sample is drawn only from the finished
   sleep; and it responds, Ok or with the error, only from the drawn
   sample. *)
StepOrder ==
    [][\A n \in Invs :
          n \in DOMAIN inv' /\ inv'[n].pc # inv[n].pc =>
              /\ inv'[n].pc = "sleep" =>
                    /\ inv[n].pc \in {"recv", "join"}
                    /\ Legs(inv'[n]) \subseteq inv'[n].okLegs
                    /\ inv'[n].futures = <<>>
              /\ inv'[n].pc = "sample" => inv[n].pc = "sleep"
              /\ inv'[n].pc \in {"ok", "err"} => inv[n].pc = "sample"]_vars

(* An invocation with two stages, one leg of which failed once, has slept
   and stands before its error sample. *)
StepOrderWitness ==
    \E n \in Live :
        /\ inv[n].pc = "sample"
        /\ Len(Plan(inv[n])) >= 2
        /\ \E p \in Own(inv[n]) : inv[n].call_list[p].was_an_error

(* C13: an invocation of a method its service has no configuration for makes
   no downstream call and ends by returning an error to its caller; its
   handler is not unwound. *)
UnknownMethodFails ==
    \A n \in Live :
        inv[n].method_name \notin DOMAIN config[inv[n].svc] =>
            /\ inv[n].pc \in {"recv", "err"}
            /\ inv[n].attempts = 0

(* C14: an invocation that has responded did so by its own error sample
   alone: with the internal error exactly when the sample was true, with Ok
   exactly when it was false, whatever errors its trace holds; and it drew
   no sample before it stood at the sample. *)
StatusFromOwnSample ==
    \A n \in Live :
        LET v == inv[n]
        IN /\ v.pc = "err" <=> v.sample = "true"
           /\ v.pc = "ok" <=> v.sample = "false"
           /\ v.pc \in {"recv", "join", "sleep", "sample", "panic"} =>
                 v.sample = "none"

(* An invocation has responded Ok although a call of its own had failed. *)
StatusFromOwnSampleWitness ==
    \E n \in Live :
        /\ inv[n].pc = "ok" /\ inv[n].sample = "false"
        /\ \E p \in Own(inv[n]) : inv[n].call_list[p].was_an_error

(* C15: every error answer of a callee (a simulated error, or its handler
   died) is followed by one more request to that leg: at any time the
   requests sent for a leg are at most one more than the error answers
   received for it, and when the invocation has left the loop over its rows
   every leg has been sent exactly one request more than it answered
   errors.  Every request in flight has its own invocation of the leg's
   method at the callee. *)
RetryPerFailure ==
    \A n \in Live :
        LET v == inv[n]
        IN /\ \A d \in Legs(v) :
                 /\ Cnt(v.sentN, d) <= Cnt(v.failedN, d) + 1
                 /\ Cnt(v.failedN, d) <= Cnt(v.sentN, d)
                 /\ Drained(v) => Cnt(v.sentN, d) = Cnt(v.failedN, d) + 1
           /\ DOMAIN v.sentN \subseteq Legs(v)
           /\ \A j \in DOMAIN v.futures :
                 v.futures[j].st = "wait" =>
                     /\ inv[v.futures[j].child].parent = n
                     /\ inv[v.futures[j].child].pfut = j
                     /\ inv[v.futures[j].child].svc = v.futures[j].service_name
                     /\ inv[v.futures[j].child].method_name = v.futures[j].method_name

(* A leg answered with an error twice and was sent three requests; its
   caller has left the loop. *)
RetryPerFailureWitness ==
    \E n \in Live : \E d \in Legs(inv[n]) :
        /\ Drained(inv[n])
        /\ Cnt(inv[n].failedN, d) = 2
        /\ Cnt(inv[n].sentN, d) = 3

(* No method of the topology errors on every call. *)
NoCertainError ==
    \A s \in DOMAIN config : \A m \in DOMAIN config[s] :
        config[s][m].error_rate # "bernoulli(1)"

(* The plan of the invocation has a leg whose method errors on every call. *)
CertainLeg(v) ==
    \E d \in Legs(v) :
        LET call == Plan(v)[d[1]][d[2]]
        IN /\ call.service_name \in DOMAIN config
           /\ call.method_name \in DOMAIN config[call.service_name]
           /\ config[call.service_name][call.method_name].error_rate = "bernoulli(1)"

(* Every invocation since the last request has ended. *)
Quiescent == requests > 0 /\ \A n \in Invs : Finished(inv[n])

(* C16: where no method errors on every call, every invocation ends, again
   and again after every request, and an invocation ends without returning
   only where a dial failed or the method was unknown (C11, C13); an
   invocation with a leg whose callee errors on every call never leaves the
   loop over its rows, so never returns. *)
Termination ==
    /\ NoCertainError => []<>Quiescent
    /\ [](\A n \in Live :
             /\ inv[n].pc = "panic" =>
                   \/ dialFails > 0
                   \/ inv[n].method_name \notin DOMAIN config[inv[n].svc]
             /\ CertainLeg(inv[n]) =>
                   inv[n].pc \notin {"sleep", "sample", "ok", "err"})

(* The callee that errors on every call has answered its caller with the
   error twice, and the caller is in the next round. *)
TerminationWitness ==
    \E n \in Live :
        /\ CertainLeg(inv[n])
        /\ inv[n].pc = "join"
        /\ inv[n].round = 3

(* C17, as claimed: the trace an invocation returns has one record for
   every call answered anywhere below it, also below a callee invocation
   that ended with an error. *)
CompleteTrace ==
    \A n \in Live : inv[n].pc = "ok" => Len(inv[n].call_list) = inv[n].deep

(* C17, amended: the trace an invocation returns has one record for every
   call of its own, and one for every call answered below the callee
   invocations that returned Ok; of a callee invocation that ended with an
   error it holds the caller's error record and nothing of the calls that
   callee made. *)
TraceOfSuccesses ==
    \A n \in Live :
        LET v == inv[n]
        IN /\ v.pc \in {"sleep", "sample", "ok", "err"} =>
                 /\ Len(v.call_list) = v.deepOk
                 /\ Cardinality(Own(v)) = v.attempts
           /\ v.deepOk <= v.deep
           /\ \A p \in Own(v) : v.call_list[p].was_an_error => v.src[p].sub = <<>>

(* An invocation has returned a trace shorter than the calls answered below
   it: a callee of it had called on and then ended with an error. *)
TraceOfSuccessesWitness ==
    \E n \in Live :
        /\ inv[n].pc = "ok"
        /\ Len(inv[n].call_list) = inv[n].deepOk
        /\ inv[n].deepOk < inv[n].deep

(* The call graph of a configuration: an edge for every call target that has
   two parts, from the calling method to the method named; and the same
   between the services. *)
MethodEdges(cfg) ==
    UNION {{<<sm, <<split(call)[1], split(call)[2]>> >> :
               call \in {c \in {Flat(cfg.services[sm[1]].methods[sm[2]].calls)[i] :
                              i \in DOMAIN Flat(cfg.services[sm[1]].methods[sm[2]].calls)} :
                            Len(split(c)) = 2}} :
           sm \in MethodsOf(cfg)}

ServiceEdges(cfg) == {<<e[1][1], e[2][1]>> : e \in MethodEdges(cfg)}

RECURSIVE Closure(_)
Closure(E) ==
    LET E2 == E \cup UNION {{<<e[1], f[2]>> : f \in {g \in E : g[1] = e[2]}} :
                             e \in E}
    IN IF E2 = E THEN E ELSE Closure(E2)

Cyclic(E) == \E e \in Closure(E) : e[1] = e[2]

(* The rule validate_service_dependencies has returned Ok. *)
DependenciesPassed ==
    \/ rule \in {"latency_distributions", "error_rates", "load"}
    \/ result = "Ok"

(* C18: a configuration whose call graph has a directed cycle, between its
   methods or between its services, does not pass the rule
   validate_service_dependencies and is not accepted by validate_config,
   in whatever order the services and the methods are met. *)
RejectsCycles ==
    DependenciesPassed =>
        /\ ~Cyclic(MethodEdges(simulator_config))
        /\ ~Cyclic(ServiceEdges(simulator_config))

(* A.m calls B.m, B.m calls A.m, and the configuration was rejected for its
   circular dependency. *)
RejectsCyclesWitness ==
    /\ result = "Circular dependency detected"
    /\ <<SvcA, MethM>> \in
           {e[2] : e \in {f \in MethodEdges(simulator_config) : f[1] = <<SvcB, MethM>>}}
    /\ <<SvcB, MethM>> \in
           {e[2] : e \in {f \in MethodEdges(simulator_config) : f[1] = <<SvcA, MethM>>}}
    /\ Cyclic(MethodEdges(simulator_config))

(* What one check, taken alone, has against a configuration: the errors it
   can report, or Ok.  The cycles are found by the closure of the service
   edges, not by the search of the validator. *)
Violation(check, cfg) ==
    IF check = "has_services" THEN {validate_has_services(cfg)}
    ELSE IF check = "call_reference_integrity"
    THEN FirstOf({CheckCalls(cfg, Flat(cfg.services[sm[1]].methods[sm[2]].calls)) :
                    sm \in MethodsOf(cfg)})
    ELSE IF check = "acyclic_call_graph"
    THEN IF Cyclic(ServiceEdges(cfg))
         THEN {"Circular dependency detected"} ELSE {"Ok"}
    ELSE IF check = "latency_well_formedness"
    THEN validate_latency_distributions(cfg)
    ELSE IF check = "error_rate_well_formedness"
    THEN validate_error_rates(cfg)
    ELSE IF check = "distribution_well_formedness"
    THEN FirstOf(validate_latency_distributions(cfg) \cup validate_error_rates(cfg))
    ELSE IF check = "load_entry_existence"
    THEN IF cfg.load.some
         THEN {validate_load_config(cfg.load.value, cfg)} ELSE {"Ok"}
    ELSE {"Ok"}

(* The errors of the earliest check of the order that has any. *)
RECURSIVE Earliest(_, _)
Earliest(order, cfg) ==
    IF order = <<>> THEN {"Ok"}
    ELSE IF Violation(Head(order), cfg) # {"Ok"}
    THEN Violation(Head(order), cfg)
    ELSE Earliest(Tail(order), cfg)

(* C19, as claimed: what validate_config returns is the error of the
   earliest violated check in the order has_services,
   call_reference_integrity, distribution_well_formedness,
   load_entry_existence, acyclic_call_graph (Ok when none is violated). *)
ClaimedCheckOrder ==
    result # "none" =>
        result \in Earliest(<<"has_services", "call_reference_integrity",
                              "distribution_well_formedness",
                              "load_entry_existence", "acyclic_call_graph">>,
                            simulator_config)

(* C19, amended: what validate_config returns is the error of the earliest
   violated check in the order has_services, call_reference_integrity,
   acyclic_call_graph, well-formedness of the latency distributions,
   well-formedness of the error rates, load_entry_existence (Ok when none
   is violated). *)
CheckOrder ==
    result # "none" =>
        result \in Earliest(<<"has_services", "call_reference_integrity",
                              "acyclic_call_graph", "latency_well_formedness",
                              "error_rate_well_formedness",
                              "load_entry_existence">>,
                            simulator_config)

(* A configuration with a cycle, an ill-formed latency distribution and a
   load entry that names no method was rejected for the cycle. *)
CheckOrderWitness ==
    /\ result = "Circular dependency detected"
    /\ Violation("latency_well_formedness", simulator_config) # {"Ok"}
    /\ Violation("load_entry_existence", simulator_config) # {"Ok"}

(* Every call target written in the configuration. *)
AllCalls(cfg) ==
    UNION {{Flat(cfg.services[sm[1]].methods[sm[2]].calls)[i] :
               i \in DOMAIN Flat(cfg.services[sm[1]].methods[sm[2]].calls)} :
           sm \in MethodsOf(cfg)}

Dots(str) == Cardinality({i \in DOMAIN str : str[i] = "."})

(* The target is the name of a service of the configuration, one dot, and
   the name of a method of that service. *)
Resolves(cfg, call) ==
    \E s \in DOMAIN cfg.services : \E m \in DOMAIN cfg.services[s].methods :
        call = Target(s, m)

ReferenceErrors ==
    {"Invalid call format", "Service does not exist", "Method does not exist"}

(* C20: a configuration that has passed validate_service_dependencies, or
   was accepted, has exactly one dot in every call target, and every call
   target names a method of a service of the configuration; a configuration
   with services and a call target that does not is rejected by that rule
   with an error of the call references, and each of these errors is
   reported only where a target has that fault. *)
ReferenceIntegrity ==
    LET cfg == simulator_config
        bad == {call \in AllCalls(cfg) : Dots(call) # 1 \/ ~Resolves(cfg, call)}
    IN /\ DependenciesPassed => bad = {}
       /\ (result # "none" /\ bad # {}) =>
             rule = "service_dependencies" /\ result \in ReferenceErrors
       /\ result \in ReferenceErrors => bad # {}
       /\ result = "Invalid call format" =>
             \E call \in AllCalls(cfg) : Dots(call) # 1
       /\ result \in {"Service does not exist", "Method does not exist"} =>
             \E call \in AllCalls(cfg) : Dots(call) = 1 /\ ~Resolves(cfg, call)

(* A target with one dot and nothing after it was rejected: the service has
   no method of the empty name. *)
ReferenceIntegrityWitness ==
    /\ result = "Method does not exist"
    /\ Target(SvcB, <<>>) \in AllCalls(simulator_config)
    /\ \A call \in AllCalls(simulator_config) :
           call # Target(SvcB, <<>>) => Resolves(simulator_config, call)

----------------------------------------------------------------------------
(* The distributions of a configuration: every method's latency, and every
   error rate that is given *)
LatenciesOf(cfg) ==
    {cfg.services[sm[1]].methods[sm[2]].latency_distribution : sm \in MethodsOf(cfg)}

ErrorRatesOf(cfg) ==
    {cfg.services[sm[1]].methods[sm[2]].error_rate.value :
        sm \in {x \in MethodsOf(cfg) :
                    cfg.services[x[1]].methods[x[2]].error_rate.some}}

RealValued == {"normal", "uniform", "constant", "exponential"}

Required(type) ==
    CASE type = "normal" -> {"mean", "stddev"}
      [] type = "uniform" -> {"min", "max"}
      [] type = "constant" -> {"value"}
      [] type = "exponential" -> {"rate"}
      [] OTHER -> {}

(* A distribution of a real-valued kind with its parameters present and
   inside the constraint of the kind *)
WellFormed(d) ==
    /\ d.distribution_type \in RealValued
    /\ Required(d.distribution_type) \subseteq DOMAIN d.parameters
    /\ CASE d.distribution_type = "normal" ->
                d.parameters["mean"] >= 0 /\ d.parameters["stddev"] > 0
         [] d.distribution_type = "uniform" ->
                d.parameters["min"] >= 0 /\ d.parameters["max"] >= d.parameters["min"]
         [] d.distribution_type = "constant" -> d.parameters["value"] >= 0
         [] d.distribution_type = "exponential" -> d.parameters["rate"] > 0

(* A distribution the topology is rejected for: of an unknown kind, or of a
   real-valued kind and not well-formed *)
IllFormed(d) ==
    /\ d.distribution_type # "bernoulli"
    /\ ~WellFormed(d)

(* C21: a configuration that gets past the two distribution rules has no
   latency and no error rate of an unknown kind, with a required parameter
   missing or outside the constraint of its kind (normal: mean >= 0 and
   stddev > 0; uniform: min >= 0 and max >= min; constant: value >= 0;
   exponential: rate > 0); and a distribution rule fails only where one of
   the distributions it looks at is not a well-formed distribution of a
   real-valued kind. *)
DistributionWellFormedness ==
    /\ rule \in {"error_rates", "load", "done"}
       => \A d \in LatenciesOf(simulator_config) : ~IllFormed(d)
    /\ rule \in {"load", "done"}
       => \A d \in ErrorRatesOf(simulator_config) : ~IllFormed(d)
    /\ rule = "latency_distributions" /\ result # "none"
       => \E d \in LatenciesOf(simulator_config) : ~WellFormed(d)
    /\ rule = "error_rates" /\ result # "none"
       => \E d \in ErrorRatesOf(simulator_config) : ~WellFormed(d)

(* A uniform latency with min = max = 0 was let through and the error rate,
   an exponential with rate 0, was rejected *)
DistributionWellFormednessWitness ==
    /\ rule = "error_rates"
    /\ result = "Exponential distribution has non-positive rate"
    /\ Distribution("uniform", [min |-> 0, max |-> 0]) \in LatenciesOf(simulator_config)

(* C22: a configuration that validate_config accepts has no bernoulli
   distribution whose p is missing or outside [0, 1]. *)
BernoulliInRange ==
    result = "Ok"
    => \A d \in LatenciesOf(simulator_config) \cup ErrorRatesOf(simulator_config) :
           d.distribution_type = "bernoulli"
           => /\ "p" \in DOMAIN d.parameters
              /\ d.parameters["p"] >= 0
              /\ d.parameters["p"] <= 1

----------------------------------------------------------------------------
(* What the driver has done so far *)
Happened(kind) == {i \in DOMAIN events : events[i][1] = kind}

(* the runtime command was run, whatever its exit status *)
Invoked(command) ==
    \E i \in Happened(command) : events[i][2] # "not executed"

(* the driver has made the call and is past it *)
Past(step) ==
    /\ pc # "exit"
    /\ \E i, j \in DOMAIN Steps(program) :
           Steps(program)[i] = step /\ Steps(program)[j] = pc /\ i < j

(* C23: a load worker is only ever started for an entry point that names a
   service of the topology and a method of that service and has a positive
   requests_per_second. *)
LoadEntryValidation ==
    \A i \in Happened("spawn") :
        /\ events[i][2].service \in DOMAIN simulator_config.services
        /\ events[i][2].method
               \in DOMAIN simulator_config.services[events[i][2].service].methods
        /\ events[i][2].requests_per_second > 0

(* Every rule of validate_config returns Ok, in whatever order the maps are
   iterated *)
PassesEveryCheck(cfg) ==
    /\ validate_has_services(cfg) = "Ok"
    /\ validate_service_dependencies(cfg) = {"Ok"}
    /\ validate_latency_distributions(cfg) = {"Ok"}
    /\ validate_error_rates(cfg) = {"Ok"}
    /\ cfg.load.some => validate_load_config(cfg.load.value, cfg) = "Ok"

(* C24: `up -d` is run only with the ports assigned and both artifacts
   written, and only for a topology that passes every check of the
   validator, acyclicity included; for a topology that fails a check no file
   is written and no command is run. *)
NoDeploymentOnInvalidInput ==
    /\ Happened("up") # {}
       => /\ port_assignments.some
          /\ ComposePath \in DOMAIN files
          /\ \A s \in DOMAIN simulator_config.services :
                 HostConfigPath(program, s) \in DOMAIN files
    /\ files # <<>> \/ events # <<>> => PassesEveryCheck(simulator_config)

(* C25: a mapping returned by assign_ports gives a port to every service of
   the topology, and to no two services the same port. *)
PortUniqueness ==
    port_assignments.some
    => /\ DOMAIN port_assignments.value = DOMAIN simulator_config.services
       /\ \A s, t \in DOMAIN port_assignments.value :
              s # t => port_assignments.value[s] # port_assignments.value[t]

(* three services have their ports *)
PortUniquenessWitness ==
    /\ port_assignments.some
    /\ Cardinality(DOMAIN port_assignments.value) = 3

(* The alphabetical order of the names *)
Alphabet == <<"A", "B", "C", "D">>

Rank(char) == CHOOSE i \in DOMAIN Alphabet : Alphabet[i] = char

RECURSIVE Precedes(_, _)
Precedes(s, t) ==
    IF s = <<>> THEN t # <<>>
    ELSE IF t = <<>> THEN FALSE
    ELSE IF Head(s) # Head(t) THEN Rank(Head(s)) < Rank(Head(t))
    ELSE Precedes(Tail(s), Tail(t))

Alphabetical(names) ==
    CHOOSE order \in Orders(names) :
        \A i, j \in DOMAIN order : i < j => Precedes(order[i], order[j])

(* C26: the mapping assign_ports returns is the one that hands the ports out
   in the alphabetical order of the service names, whatever the order in
   which the map yields them. *)
DeterministicPorts ==
    port_assignments.some
    => port_assignments.value
           = assign_ports(Alphabetical(DOMAIN simulator_config.services)).value

(* C27: every port of a mapping returned by assign_ports is in
   [50051, 60000); for a topology with more services than the pool has ports
   assign_ports returns the error and no mapping, and the driver leaves with
   that error, no file written and no command run. *)
PoolBounds ==
    /\ port_assignments.some
       => \A s \in DOMAIN port_assignments.value :
              /\ port_assignments.value[s] >= 50051
              /\ port_assignments.value[s] < 60000
    /\ Cardinality(DOMAIN simulator_config.services) > 60000 - 50051
       => /\ ~port_assignments.some
          /\ files = <<>>
          /\ events = <<>>
          /\ pc \in {"read_and_validate_config", "assign_ports", "exit"}
          /\ pc = "exit" => exit = "Ran out of available ports."

(* the crowd asked for one port more than the pool has *)
PoolBoundsWitness ==
    /\ Cardinality(DOMAIN simulator_config.services) = 60000 - 50051 + 1
    /\ pc = "exit"
    /\ exit = "Ran out of available ports."

(* The section of a service in the fleet config artifact *)
Section(service_name, cfg) ==
    [ip |-> service_name,
     port |-> to_string(cfg.services[service_name].container_port),
     methods |-> cfg.services[service_name].methods]

(* C28: once generate_service_configs has returned Ok there is one document,
   with exactly the service names as its keys and under each name the ip
   (the name), the container port as a string and the methods of the
   service; and every unit of the compose document mounts that document and
   names in SERVICE_NAME a key of it. *)
FleetConfigArtifact ==
    /\ Past("generate_service_configs")
       => /\ ConfigPath \in DOMAIN files
          /\ DOMAIN files[ConfigPath] = DOMAIN simulator_config.services
          /\ \A s \in DOMAIN simulator_config.services :
                 files[ConfigPath][s] = Section(s, simulator_config)
    /\ Past("generate_docker_compose")
       => \A s \in DOMAIN simulator_config.services :
              LET unit == files[ComposePath].services[s]
              IN /\ unit.volumes[1].host = ConfigPath
                 /\ unit.environment.SERVICE_NAME \in DOMAIN files[ConfigPath]

(* C29: a driver that has run `up -d` and has returned has run `down`. *)
TearDownOnEveryPath ==
    pc = "exit" /\ Invoked("up") => Invoked("down")

(* C30: `down` is run only after the signal, which is received only after
   an `up -d` that ended with success; and a load worker is spawned only
   after an `up -d` that ended with success. *)
BlocksUntilSignal ==
    /\ \A i \in Happened("down") :
           \E j \in Happened("signal") :
               /\ j < i
               /\ \E k \in Happened("up") : k < j /\ events[k][2] = "success"
    /\ \A i \in Happened("spawn") :
           \E k \in Happened("up") : k < i /\ events[k][2] = "success"

(* the orchestrator spawned its workers, got the signal and ran `down` *)
BlocksUntilSignalWitness ==
    /\ program = "orchestrator"
    /\ Happened("spawn") # {}
    /\ Happened("down") # {}
    /\ exit = "Ok"

(* C31: the load workers are independent.  start_load_generation spawns one
   worker for every entry point, in the order of the load section; and a
   step of one worker, its panic, its failed connection and its failed
   request included, changes no other worker: the others are neither
   stopped nor held back by it. *)
WorkerIndependence ==
    /\ [](/\ Past("start_load_generation")
              => Len(workers) = Len(simulator_config.load.value.entry_points)
          /\ \A i \in DOMAIN workers :
                 workers[i].entry_point
                     = simulator_config.load.value.entry_points[i])
    /\ [][\A i \in DOMAIN workers :
              workers'[i] # workers[i]
              => \A j \in DOMAIN workers \ {i} : workers'[j] = workers[j]]_vars

(* one worker has panicked or could not connect, or has had a request
   answered with an error, and another one is sending its second request *)
WorkerIndependenceWitness ==
    \E i, j \in DOMAIN workers :
        /\ i # j
        /\ \/ workers[i].pc \in {"panicked", "ended"}
           \/ workers[i].sent > workers[i].request_counter /\ workers[i].pc = "tick"
        /\ workers[j].pc = "get_data"
        /\ workers[j].sent = 2

(* C32: the load is fire-and-forget.  A worker that is connected sends a
   request at every tick of its period without waiting for an earlier
   response: no tick of its interval is due and unsent while it waits for
   the response to an earlier request. *)
FireAndForget ==
    \A i \in DOMAIN workers :
        workers[i].pc = "get_data" => workers[i].due = workers[i].sent

(* C39: the load period is well defined.  Every worker the orchestrator
   spawns has a period of at least one microsecond, and no worker fails
   when it creates its interval. *)
LoadPeriodDefined ==
    \A i \in DOMAIN workers :
        /\ ~is_zero(workers[i].period)
        /\ workers[i].pc # "panicked"

(* C33: round trip.  For every document that parses, writing the parsed
   configuration with the derived serialiser and parsing what was written
   gives a configuration equal to the first one: the same services,
   methods, stages and legs in the same order, distributions and entry
   points. *)
RoundTrip ==
    reparsed # None => reparsed.ok /\ reparsed = parsed

(* a document was parsed whose text is not what the serialiser writes (an
   unknown key, a number without fraction, an optional part left out), with
   a method of two stages, and what was written has been parsed again *)
RoundTripWitness ==
    /\ reparsed # None
    /\ printed # content
    /\ parsed.value.load = None
    /\ \E s \in DOMAIN parsed.value.services :
           \E m \in DOMAIN parsed.value.services[s].methods :
               /\ Len(parsed.value.services[s].methods[m].calls) = 2
               /\ parsed.value.services[s].methods[m].error_rate # None

(* the members of a JSON object, and whether all the keys are among them *)
Has(json, required) == json.t = "object" /\ required \subseteq DOMAIN json.v

(* every part the data model requires is written in the document: services;
   port and methods of a service (ip as well in the input-parser); calls
   and latency_distribution of a method; type and parameters of a
   distribution (type and value of an input-parser error rate);
   entry_points of a load section; service, method and
   requests_per_second of an entry point *)
NothingMissing(crate, json) ==
    /\ Has(json, {"services"})
    /\ \A s \in DOMAIN json.v.services.v :
           LET service == json.v.services.v[s]
           IN /\ Has(service, {"port", "methods"} \cup (IF crate = "runner" THEN {}
                                                        ELSE {"ip"}))
              /\ \A m \in DOMAIN service.v.methods.v :
                     LET method == service.v.methods.v[m]
                     IN /\ Has(method, {"calls", "latency_distribution"})
                        /\ Has(method.v.latency_distribution, {"type", "parameters"})
                        /\ \/ ~Has(method, {"error_rate"})
                           \/ method.v.error_rate = JNull
                           \/ Has(method.v.error_rate,
                                  IF crate = "runner" THEN {"type", "parameters"}
                                  ELSE {"type", "value"})
    /\ \/ ~Has(json, {"load"})
       \/ json.v.load = JNull
       \/ /\ Has(json.v.load, {"entry_points"})
          /\ \A i \in DOMAIN json.v.load.v.entry_points.v :
                 Has(json.v.load.v.entry_points.v[i],
                     {"service", "method", "requests_per_second"})

(* every part that is written has the type of its field *)
RightTypes(crate, json) ==
    /\ \A s \in DOMAIN json.v.services.v :
           LET service == json.v.services.v[s].v
           IN /\ IF crate = "runner"
                 THEN /\ service.port.t = "number"
                      /\ ~service.port.float
                      /\ service.port.v \in 0..(2^16 - 1)
                 ELSE service.port.t = "string" /\ service.ip.t = "string"
              /\ \A m \in DOMAIN service.methods.v :
                     LET method == service.methods.v[m].v
                     IN /\ method.calls.t = "array"
                        /\ \A i \in DOMAIN method.calls.v :
                               /\ method.calls.v[i].t = "array"
                               /\ \A j \in DOMAIN method.calls.v[i].v :
                                      method.calls.v[i].v[j].t = "string"
                        /\ \A x \in DOMAIN method.latency_distribution.v.parameters.v :
                               method.latency_distribution.v.parameters.v[x].t = "number"
    /\ Has(json, {"load"}) /\ json.v.load # JNull
       => \A i \in DOMAIN json.v.load.v.entry_points.v :
              LET rps == json.v.load.v.entry_points.v[i].v.requests_per_second
              IN rps.t = "number" /\ ~rps.float /\ rps.v >= 0

(* the configuration has the services, methods, stages and legs in order and
   entry points in order that the document writes, and no other part: the
   keys the structs do not have are not in it *)
Exactly(cfg, json) ==
    /\ DOMAIN cfg = {"services", "load"}
    /\ DOMAIN cfg.services = DOMAIN json.v.services.v
    /\ \A s \in DOMAIN cfg.services :
           LET methods == json.v.services.v[s].v.methods.v
           IN /\ DOMAIN cfg.services[s].methods = DOMAIN methods
              /\ \A m \in DOMAIN methods :
                     /\ DOMAIN cfg.services[s].methods[m]
                            = {"calls", "latency_distribution", "error_rate"}
                     /\ cfg.services[s].methods[m].calls
                            = [i \in DOMAIN methods[m].v.calls.v |->
                                 [j \in DOMAIN methods[m].v.calls.v[i].v |->
                                    methods[m].v.calls.v[i].v[j].v]]
    /\ IF ~Has(json, {"load"}) \/ json.v.load = JNull THEN cfg.load = None
       ELSE cfg.load
              = Some(LoadConfig(
                    [i \in DOMAIN json.v.load.v.entry_points.v |->
                       LET entry_point == json.v.load.v.entry_points.v[i].v
                       IN EntryPoint(entry_point.service.v, entry_point.method.v,
                                     entry_point.requests_per_second.v)]))

(* C34: the outcome of the parser.  For a text that is no JSON, and for a
   document in which a required part is not written, parse_json_str returns
   an error and no configuration; for a document with every required part
   written with its type it returns a configuration; and a configuration it
   returns has exactly the services, methods, call stages in order and
   entry points of the document, the unknown keys being ignored. *)
ParserOutcome ==
    parsed # None
    => /\ content = Malformed \/ ~NothingMissing(program, content)
          => ~parsed.ok /\ DOMAIN parsed = {"ok", "error"}
       /\ content # Malformed /\ NothingMissing(program, content)
             /\ RightTypes(program, content)
          => parsed.ok
       /\ parsed.ok => Exactly(parsed.value, content)

(* a document with keys the structs do not have, a method of two stages and
   a load section was parsed into a configuration *)
ParserOutcomeWitness ==
    /\ parsed # None
    /\ parsed.ok
    /\ Has(content, {"version", "load"})
    /\ parsed.value.load # None
    /\ \E s \in DOMAIN parsed.value.services :
           \E m \in DOMAIN parsed.value.services[s].methods :
               Len(parsed.value.services[s].methods[m].calls) = 2

(* C35: every topology validate_config accepts can be loaded by the generic
   service.  In a deployment the runner has brought up, the service of
   every container has built its samplers and runs. *)
LoadableByService ==
    program = "runner" => \A i \in Happened("new") : events[i][3] = "running"

(* C36: outcomes are attributed to the right leg.  Between the rounds of a
   stage, leg i counts as succeeded exactly if a call issued to the target
   of leg i was answered Ok; the j-th future of a round is the call to the
   j-th pending leg in index order, issued to that leg's target; and every
   record the caller wrote for leg i names the method of leg i's target. *)
OutcomeAttribution ==
    \A n \in Live :
        LET v == inv[n]
        IN v.pc = "join"
           => /\ \A i \in DOMAIN v.succeeded :
                     /\ v.succeeded[i] => <<v.stage, i>> \in v.okLegs
                     /\ v.arrc = 0 /\ <<v.stage, i>> \in v.okLegs => v.succeeded[i]
              /\ v.arrc = 0
                 => /\ Len(v.futures)
                          = Cardinality({i \in DOMAIN v.succeeded : ~v.succeeded[i]})
                    /\ \A j \in DOMAIN v.futures :
                           /\ ~v.succeeded[v.futures[j].leg]
                           /\ \A k \in DOMAIN v.futures :
                                  j < k => v.futures[j].leg < v.futures[k].leg
              /\ \A j \in DOMAIN v.futures :
                     LET call == Rows(v)[v.stage][v.futures[j].leg]
                     IN /\ v.futures[j].service_name = call.service_name
                        /\ v.futures[j].method_name = call.method_name
              /\ \A p \in Own(v) :
                     v.call_list[p].method_name
                         = Rows(v)[v.src[p].stage][v.src[p].leg].method_name

(* a round that calls the second leg alone, the first having succeeded in
   an earlier round in which the second failed *)
OutcomeAttributionWitness ==
    \E n \in Live :
        /\ inv[n].pc = "join"
        /\ inv[n].round > 1
        /\ inv[n].succeeded = <<TRUE, FALSE>>
        /\ \E p \in Own(inv[n]) :
               inv[n].src[p].leg = 2 /\ inv[n].call_list[p].was_an_error

(* C37: the cycle detection has no false positive.  The rule
   validate_service_dependencies reports a circular dependency only for a
   configuration whose service-level call graph has a directed cycle (a
   method that calls a method of its own service is a cycle of length one),
   in whatever order the services and the methods are met; a configuration
   with shared descendants and no cycle passes the rule. *)
NoFalseCycle ==
    /\ result = "Circular dependency detected"
          => Cyclic(ServiceEdges(simulator_config))
    /\ rule = "service_dependencies" /\ result = "none"
       /\ ~Cyclic(ServiceEdges(simulator_config))
          => "Circular dependency detected"
                 \notin validate_service_dependencies(simulator_config)

(* The diamond A -> B, A -> C, B -> D, C -> D has passed the rule. *)
NoFalseCycleWitness ==
    /\ DependenciesPassed
    /\ ServiceEdges(simulator_config)
           = {<<SvcA, SvcB>>, <<SvcA, SvcC>>, <<SvcB, SvcD>>, <<SvcC, SvcD>>}

(* C38: the connection cache under concurrent init_service_client calls.
   No step removes an entry of a cache; every entry of the cache of a
   service, under the name of a target, is a channel that this service
   dialled successfully to the url configured for that target; and a
   request that found the target in the cache finds it again when it takes
   the lock the second time. *)
CachedFromDial ==
    \A s \in Services : \A t \in DOMAIN services[s] :
        /\ services[s][t] \in DOMAIN dialled
        /\ dialled[services[s][t]].by = s
        /\ dialled[services[s][t]].url = service_url(t)

HitFinds ==
    \A n \in Invs : \A j \in Futs(n) :
        inv[n].pc = "join" /\ inv[n].futures[j].st = "hit"
            => contains_key(services[inv[n].svc], inv[n].futures[j].service_name)

ConnectionCache ==
    /\ []CachedFromDial
    /\ []HitFinds
    /\ [][\A s \in Services : \A t \in DOMAIN services[s] :
              t \in DOMAIN services'[s]]_vars

(* Two requests of one service have dialled the same target, both dials
   succeeded and both clients were inserted, and a third request of the
   service is on the hit path for that target. *)
ConnectionCacheWitness ==
    \E s, t \in Services :
        /\ Cardinality({c \in DOMAIN dialled :
                           dialled[c] = [by |-> s, url |-> service_url(t)]}) > 1
        /\ t \in DOMAIN services[s]
        /\ \A n \in Invs : \A j \in Futs(n) :
               inv[n].svc = s /\ inv[n].futures[j].service_name = t
                   => inv[n].futures[j].st \notin {"dial", "insert"}
        /\ \E n \in Invs : \E j \in Futs(n) :
               /\ inv[n].svc = s
               /\ inv[n].pc = "join"
               /\ inv[n].futures[j].service_name = t
               /\ inv[n].futures[j].st = "hit"

(* C40: the submission gate of handle_submit and parse_input.  The
   orchestrator is called only with a configuration that was parsed and for
   which validate_config returned Ok; a request whose parsing or validation
   failed is answered with HTTP 400 or InvalidArgument, and no call to the
   orchestrator was made; a request whose submission failed is answered
   with HTTP 500 or Internal, and a success is replied only when every call
   made to the orchestrator succeeded. *)
ClientError(reply) ==
    IF program = "runner" THEN reply.status = 400 /\ ~reply.success
    ELSE reply.code = "InvalidArgument"
ServerError(reply) ==
    IF program = "runner" THEN reply.status = 500 /\ ~reply.success
    ELSE reply.code = "Internal"
SuccessReply(reply) ==
    IF program = "runner" THEN reply.status = 200 /\ reply.success
    ELSE reply.code = "Ok" /\ reply.success

SubmissionGate ==
    /\ events # <<>>
          => /\ parsed # None /\ parsed.ok
             /\ result = "Ok"
             /\ Len(events) = 1
             /\ events[1][2] = parsed.value
    /\ pc = "replied"
          => /\ ~parsed.ok \/ result # "Ok"
                   => ClientError(exit) /\ events = <<>>
             /\ events # <<>> /\ events[1][3] # "Ok" => ServerError(exit)
             /\ SuccessReply(exit)
                   => /\ parsed.ok /\ result = "Ok"
                      /\ \A i \in DOMAIN events : events[i][3] = "Ok"
                      /\ Forwards(program, content) => events # <<>>

(* Every kind of reply of both handlers has been given: the runner has
   answered a request that passed its validation with 500 after the
   orchestrator refused it. *)
SubmissionGateWitness ==
    /\ program = "runner"
    /\ pc = "replied"
    /\ parsed.ok /\ result = "Ok"
    /\ events # <<>> /\ events[1][3] = "Failed to submit configuration"
    /\ ServerError(exit)

====
